---------------------------- MODULE Spec2Model ----------------------------
(***************************************************************************)
(* Model of the simulator streaming server (swift/Sources/SimulatorServer). *)
(*                                                                         *)
(* Two groups of variables:                                                *)
(*   - the top-level driver (main.swift): the main thread's position, the  *)
(*     command thread (CommandHandler.swift), the FPS-reporting flag and   *)
(*     the text written to stdout;                                         *)
(*   - the MJPEG server (HTTPServer.swift): the serial frameQueue, the     *)
(*     CircularFrameBuffer and the per-connection handleClient workers.    *)
(*                                                                         *)
(* A text is a sequence of tokens in which "\n" is a token of its own.     *)
(* stdout is the sequence of lines written so far; print() splits the text *)
(* it is given at its "\n" tokens, so the lines are computed, not assumed. *)
(***************************************************************************)
EXTENDS Integers, Sequences, FiniteSets, TLC

\* ---------------------------------------------------------------- bounds
\* number of stdin lines the command thread reads before EOF
MaxCommands == 3
\* number of fps_report messages observed on stdout
MaxReports == 2
\* clock ticks per second (the pacing loop's 1.0 s report period)
TicksPerSec == 2
\* lag of the pacing loop behind its target time that is tracked beyond 1 s
ExtraLag == 1

\* number of frames the ring already holds when the first connection arrives
Preload == 4
\* number of frames the surface handler submits after that
MaxFrames == 3
\* number of submitted frames waiting on frameQueue at one time
MaxPending == 2

\* the connections the acceptor hands to handleClient
Clients == {"c1", "c2"}

\* ------------------------------------------------------- driver variables
VARIABLES
    mainPc,        \* position of main() (main.swift)
    exitCode,      \* -1 while running, else the argument of exit()
    port,          \* --port argument (0 = auto)
    fps,           \* --fps argument after clamping
    listening,     \* HTTPServer.start() has bound and listens
    boundPort,     \* port returned by HTTPServer.start()
    touchHandler,  \* "nil" or "started"
    fpsReporting,  \* main.swift:113
    sinceFrame,    \* now - lastFrameTime, in ticks (saturates at MaxLag)
    sinceReport,   \* now - lastFPSReportTime, in ticks (saturates at TicksPerSec)
    stdout,        \* the lines written to stdout, each a token sequence
    cmdPc,         \* position of CommandHandler.readCommands
    command,       \* the parsed Command being dispatched
    commandCount,  \* CommandHandler.commandCount
    line,          \* the String readLineString returned, while it is dispatched
    stdinEof,      \* read() on stdin has returned 0: the writer closed the pipe
    lastLog,       \* level of the last stderr line of the argument loop or a command
    touchQueue,    \* blocks waiting on TouchHandler.queue, oldest first
    hidSent,       \* the HID messages the last block of that queue sent
    hidClient,     \* TouchHandler.hidClient: <<>> or <<the send method it has>>
    hidLog         \* every sendTouchEvent call so far, oldest first

cmdIoVars == <<line, stdinEof, lastLog, touchQueue, hidSent, hidClient, hidLog>>

driverVars == <<mainPc, exitCode, port, fps, listening, boundPort, touchHandler,
                fpsReporting, sinceFrame, sinceReport, stdout,
                cmdPc, command, commandCount, cmdIoVars>>

\* ------------------------------------------------------- server variables
VARIABLES
    submitted,     \* number of submitFrame calls; frame k is the k-th submitted
    frameQueue,    \* blocks waiting on the serial frameQueue, oldest first
    frames,        \* CircularFrameBuffer.frames
    readIndex,     \* CircularFrameBuffer.readIndex
    clientPc,      \* position of handleClient, per connection
    sockOpen,      \* the connection's socket is open
    batch,         \* frames handleClient still has to write from its last read
    lastSent,      \* the last frame whose bytes were written to the socket
    failed,        \* a write() on the socket returned -1 or a short count
    cursorAt,      \* the ring's latest index at the connection's last read
    headers,       \* the response headers handed to write(), per connection
    lastPart       \* the last multipart part a write() took, per connection

wireVars == <<headers, lastPart>>

serverVars == <<submitted, frameQueue, frames, readIndex, clientPc, sockOpen,
                batch, lastSent, failed, cursorAt, wireVars>>

\* ------------------------------------------- startup and encoder variables
VARIABLES
    argv,           \* CommandLine.arguments without the program name
    argsLeft,       \* main's var args: the arguments not consumed yet
    udid,           \* --udid argument: <<>> for nil, else <<value>>
    quality,        \* --quality argument after clamping, in hundredths
    registeredUUID, \* UUID the surface-change callback is registered under
    pollingTimer,   \* CoreSimulatorBridge.pollingTimer is set and running
    ioPorts,        \* the I/O ports bridge.start was given by getIOPorts
    displayDescriptor, \* <<>> for nil, else <<index of the selected port>>
    stopped,        \* CoreSimulatorBridge.stop has returned
    currentSurface, \* CoreSimulatorBridge.currentSurface: <<>> for nil
    surfaceQueue,   \* the blocks waiting on surfaceUpdateQueue, oldest first
    inHandler,      \* the blocks of surfaceUpdateQueue that are being run
    notified,       \* surface notifications and timer events so far
    notes,          \* for each frame submitted by a block, the block's number
    lastNil,        \* the number of the last block that handled a nil surface
    encoder,        \* main's var encoder: <<>> for nil, else <<JPEGEncoder>>
    encoded,        \* the last run of the surface handler: <<>> before the first
    semaphore,      \* the count of the encoder's DispatchSemaphore
    lateCallbacks   \* output handlers of the encoder that have not run yet

argVars == <<argv, argsLeft, udid, quality>>

bridgeVars == <<registeredUUID, pollingTimer, ioPorts, displayDescriptor, stopped>>

queueVars == <<currentSurface, surfaceQueue, inHandler, notified, notes, lastNil>>

encVars == <<encoder, encoded, semaphore, lateCallbacks>>

\* ------------------------------------------------- orchestrator variables
VARIABLES
    sessionCache,   \* part_003:32  per UDID: <<>> or <<the cached session>>
    calls,          \* the getOrCreateSession calls of the callers
    procs           \* the simulator-server processes spawned so far

orchVars == <<sessionCache, calls, procs>>

\* --------------------------------------------- WebSocket server variables
VARIABLES
    clients,        \* server.ts:33  per socket: "new", "open" (in the clients map) or "closed"
    subscriptions,  \* per socket: the UDIDs u with "stream:u" in its subscriptions
    streams,        \* the streamFramesToWebSocket calls so far, oldest first
    activeStreams,  \* server.ts:36  per UDID: 0 or the stream whose controller it holds
    starting,       \* the stream:start handlers waiting in await getOrCreateSession
    wsEvent         \* the event the server handled last

wsVars == <<clients, subscriptions, streams, activeStreams, starting, wsEvent>>

restVars == <<argVars, bridgeVars, queueVars, encVars, orchVars, wsVars>>

vars == <<driverVars, serverVars, restVars>>

\* ------------------------------------------------------------ text helpers
NL == "\n"

Digit == <<"0", "1", "2", "3", "4", "5", "6", "7", "8", "9">>

\* "\(n)" for a non-negative integer: its decimal digits
RECURSIVE Decimal(_)
Decimal(n) ==
    IF n < 10 THEN <<Digit[n + 1]>>
    ELSE Decimal(n \div 10) \o <<Digit[(n % 10) + 1]>>

\* main.swift:186, the argument of print, with the streamURL of main.swift:86
ReadyText(p) ==
    <<"stream_ready", " ">>
        \o <<"http://127.0.0.1:">> \o Decimal(p) \o <<"/stream.mjpeg">>

\* main.swift:217, the argument of print: the multi-line string literal of
\* main.swift:209-216 after the prefix; the interpolated numbers are rendered
\* by Swift without line breaks and stand as one token
FpsReportText ==
    <<"fps_report", " ">>
        \o <<"{", NL,
              "  \"frame_count\": ", "<frameCount>", ",", NL,
              "  \"encoded_frames\": ", "<encodedFrameCount>", ",", NL,
              "  \"fps\": ", "<%.1f>", ",", NL,
              "  \"elapsed\": ", "<%.2f>", NL,
              "}">>

\* the newline-terminated lines of a text
RECURSIVE SplitLines(_, _)
SplitLines(toks, cur) ==
    IF toks = <<>> THEN <<>>
    ELSE IF Head(toks) = NL THEN <<cur>> \o SplitLines(Tail(toks), <<>>)
    ELSE SplitLines(Tail(toks), Append(cur, Head(toks)))

\* Swift print(): the text followed by the terminator "\n"; every print
\* ends a line, so stdout never holds an unfinished line
PrintLn(out, text) == out \o SplitLines(text \o <<NL>>, <<>>)

StartsWith(ln, word) == Len(ln) >= 2 /\ ln[1] = word /\ ln[2] = " "

IsReadyLine(ln) == StartsWith(ln, "stream_ready")
IsReportLine(ln) == StartsWith(ln, "fps_report")

NumReports == Cardinality({i \in 1..Len(stdout) : IsReportLine(stdout[i])})
NumReady == Cardinality({i \in 1..Len(stdout) : IsReadyLine(stdout[i])})

\* ------------------------------------------------------------ stdin lines
\* A line is a sequence of tokens in which the space, the comma, the newline
\* and a byte that is not valid UTF-8 are tokens of their own; a word or a
\* number is one token.
SP == " "
COMMA == ","
BadByte == "<0xFF>"

\* no String: the nil of readLineString, and the value of line between reads
NoLine == <<"<nil>">>

\* the lines the driver specifications read from stdin
StdinLines ==
    { <<"fps", SP, "true">>, <<"fps", SP, "false">>, <<"shutdown">>,
      <<"rotate", SP, "left">>, <<"bogus">> }

\* touch lines with the phase and the points separated by spaces
SpacedTouchLines ==
    { <<"touch", SP, "began", SP, "0.5", COMMA, "0.5">>,
      <<"touch", SP, "ended", SP, "0.5", COMMA, "0.5">>,
      <<"touch", SP, "moved", SP, "0.25", COMMA, "0.5", SP, "0.5", COMMA, "1">> }

\* touch lines without a shape, a known phase or a numeric point
MalformedTouchLines ==
    { <<"touch">>, <<"touch", SP, "banana">>, <<"touch", SP, "began">>,
      <<"touch", SP, "tapped", SP, "0.5", COMMA, "0.5">>,
      <<"touch", SP, "began", SP, "x", COMMA, "y">>,
      <<"touch", SP, "tapped", COMMA, "0.5", COMMA, "0.5">>,
      <<"touch", SP, "began", COMMA, "x", COMMA, "y">> }

\* the lines the command specification reads from stdin: those above, touch
\* lines with every argument separated by commas, fps lines whose argument
\* is missing or is not the word true or false, the empty line, a blank line
\* and lines with a byte that is not UTF-8
CommandLines ==
    StdinLines \cup SpacedTouchLines \cup MalformedTouchLines
        \cup { <<"touch", SP, "began", COMMA, "0.5", COMMA, "0.5">>,
               <<"touch", SP, "ended", COMMA, "0.5", COMMA, "0.5", COMMA,
                 "0.25", COMMA, "1">> }
        \cup { <<"fps">>, <<"fps", SP, "banana">>, <<"fps", SP, "TRUE">>,
               <<"fps", SP, SP, "true">> }
        \cup { <<>>, <<SP>> }
        \cup { <<BadByte>>, <<"fps", SP, "true", BadByte>> }

\* String.trimmingCharacters(in:) for the one-token character set {ch}
RECURSIVE TrimLeft(_, _)
TrimLeft(str, ch) ==
    IF str # <<>> /\ Head(str) = ch THEN TrimLeft(Tail(str), ch) ELSE str

RECURSIVE TrimRight(_, _)
TrimRight(str, ch) ==
    IF str # <<>> /\ str[Len(str)] = ch
    THEN TrimRight(SubSeq(str, 1, Len(str) - 1), ch) ELSE str

Trim(str, ch) == TrimRight(TrimLeft(str, ch), ch)

\* Collection.split(separator:maxSplits:omittingEmptySubsequences: true):
\* cur is the subsequence being collected, n the number already returned;
\* after maxSplits subsequences the rest is returned whole
RECURSIVE SplitFrom(_, _, _, _, _)
SplitFrom(str, sep, maxSplits, cur, n) ==
    IF str = <<>> THEN (IF cur = <<>> THEN <<>> ELSE <<cur>>)
    ELSE IF Head(str) # sep
         THEN SplitFrom(Tail(str), sep, maxSplits, Append(cur, Head(str)), n)
    ELSE IF cur = <<>> THEN SplitFrom(Tail(str), sep, maxSplits, <<>>, n)
    ELSE IF n + 1 = maxSplits
         THEN <<cur>> \o (IF Tail(str) = <<>> THEN <<>> ELSE <<Tail(str)>>)
    ELSE <<cur>> \o SplitFrom(Tail(str), sep, maxSplits, <<>>, n + 1)

split(str, sep, maxSplits) == SplitFrom(str, sep, maxSplits, <<>>, 0)

\* maxSplits when the call passes none (Int.max)
NoLimit == 1000

\* String.lowercased(), token by token
lowercased(str) ==
    [i \in 1..Len(str) |->
        CASE str[i] \in {"TRUE", "True"} -> "true"
          [] str[i] \in {"FALSE", "False"} -> "false"
          [] OTHER -> str[i]]

\* Double(String): the value in hundredths, or -1 for nil
Double(str) ==
    IF Len(str) # 1 THEN -1
    ELSE CASE str[1] = "0" -> 0
           [] str[1] = "0.25" -> 25
           [] str[1] = "0.5" -> 50
           [] str[1] = "1" -> 100
           [] OTHER -> -1

\* CommandHandler.swift:30-35  the raw values of Direction; those of
\* TouchType and ButtonType (CommandHandler.swift:20-29) are spelled out
\* where a string is converted
Direction == {"down", "up"}

RawValue(str, values) == Len(str) = 1 /\ str[1] \in values

Unknown == [kind |-> "unknown"]

\* CommandHandler.swift:94-101  the points of components[i], components[i+1]
\* for i = 1, 3, ... below count - 1 (0-based), j = i + 1 here
RECURSIVE TouchPoints(_, _)
TouchPoints(components, j) ==
    IF j > Len(components) - 1 THEN <<>>
    ELSE (IF Double(components[j]) >= 0 /\ Double(components[j + 1]) >= 0
          THEN << <<Double(components[j]), Double(components[j + 1])>> >>
          ELSE <<>>)
         \o TouchPoints(components, j + 2)

\* CommandHandler.swift:85-106
parseTouchAnyPhase(args) ==
    LET components == split(args, COMMA, NoLimit)
    IN  IF Len(components) < 3 THEN Unknown
        ELSE IF TouchPoints(components, 2) = <<>> THEN Unknown
        ELSE [kind |-> "touch", type |-> components[1][1],
              points |-> TouchPoints(components, 2)]

parseTouch(args) ==
    LET components == split(args, COMMA, NoLimit)
    IN  IF Len(components) < 3 THEN Unknown
        ELSE IF ~RawValue(components[1], {"began", "moved", "ended"}) THEN Unknown
        ELSE IF TouchPoints(components, 2) = <<>> THEN Unknown
        ELSE [kind |-> "touch", type |-> components[1][1],
              points |-> TouchPoints(components, 2)]

\* CommandHandler.swift:108-120
parseButton(args) ==
    LET components == split(args, COMMA, NoLimit)
    IN  IF Len(components) # 2 THEN Unknown
        ELSE IF RawValue(components[1], {"home", "lock", "side"})
                 /\ RawValue(components[2], Direction)
        THEN [kind |-> "button"]
        ELSE Unknown

\* CommandHandler.swift:122-134
parseKey(args) ==
    LET components == split(args, COMMA, NoLimit)
        \* Int(String), or -1 for nil
        IntOf(str) ==
            IF Len(str) # 1 THEN -1
            ELSE CASE str[1] = "0" -> 0
                   [] str[1] = "1" -> 1
                   [] str[1] = "4" -> 4
                   [] OTHER -> -1
    IN  IF Len(components) # 2 THEN Unknown
        ELSE IF IntOf(components[1]) >= 0 /\ RawValue(components[2], Direction)
        THEN [kind |-> "key"]
        ELSE Unknown

\* CommandHandler.parseCommand (CommandHandler.swift:71-148)
parseCommand(str) ==
    LET trimmed == Trim(str, SP)
        parts == split(trimmed, SP, 1)
    IN  IF trimmed = <<>> THEN Unknown
        ELSE CASE parts[1] = <<"rotate">> ->
                    IF Len(parts) > 1 THEN [kind |-> "rotate"] ELSE Unknown
               [] parts[1] = <<"touch">> ->
                    IF Len(parts) > 1 THEN parseTouch(parts[2]) ELSE Unknown
               [] parts[1] = <<"button">> ->
                    IF Len(parts) > 1 THEN parseButton(parts[2]) ELSE Unknown
               [] parts[1] = <<"key">> ->
                    IF Len(parts) > 1 THEN parseKey(parts[2]) ELSE Unknown
               [] parts[1] = <<"fps">> ->
                    IF Len(parts) > 1
                    THEN [kind |-> "fps",
                          enabled |-> (lowercased(parts[2]) = <<"true">>)]
                    ELSE Unknown
               [] parts[1] = <<"shutdown">> -> [kind |-> "shutdown"]
               [] OTHER -> Unknown

\* FileHandle.readLineString (CommandHandler.swift:153-156) on the bytes of
\* one line: nil when they are not UTF-8, else the text without its newline
readLineString(data) ==
    IF \E i \in 1..Len(data) : data[i] = BadByte THEN NoLine
    ELSE Trim(data, NL)

NoCommand == [kind |-> "none"]

\* ------------------------------------------------------------------- Init
\* the port the listener is given when port 0 is requested
EphemeralPorts == {49152}

\* ------------------------------------------------------------- arguments
\* an argument is a token sequence: a flag word is one token, any other
\* argument has one token per character
MaxArgItems == 2

\* a simulator UDID
SomeUdid == <<"U", "D", "I", "D">>

\* a flag with its value, a flag without one, a flag that takes none, a word
ArgItems ==
    { <<<<"--udid">>, SomeUdid>>, <<<<"--udid">>>>,
      <<<<"--fps">>>>, <<<<"--quality">>>>, <<<<"--port">>>>,
      <<<<"--help">>>>, <<<<"-h">>>>, <<<<"--bogus">>>>, <<SomeUdid>> }
        \cup { <<<<"--fps">>, v>> :
                    v \in { <<"0">>, <<"3", "0">>, <<"9", "9", "9">>,
                            <<"-", "5">>, <<"a", "b", "c">> } }
        \cup { <<<<"--quality">>, v>> :
                    v \in { <<"0", ".", "0", "5">>, <<"0", ".", "5">>, <<"2">>,
                            <<"a", "b", "c">> } }
        \cup { <<<<"--port">>, v>> :
                    v \in { <<"8", "0", "8", "0">>, <<"7", "0", "0", "0", "0">>,
                            <<"a", "b", "c">> } }

\* the argument lists made of at most n items
RECURSIVE ArgLists(_)
ArgLists(n) ==
    IF n = 0 THEN { <<>> }
    ELSE ArgLists(n - 1)
            \cup { l \o i : l \in ArgLists(n - 1), i \in ArgItems }

DigitValue(ch) == (CHOOSE i \in 1..Len(Digit) : Digit[i] = ch) - 1

AllDigits(str) ==
    str # <<>> /\ \A i \in 1..Len(str) : \E d \in 1..Len(Digit) : Digit[d] = str[i]

\* the number a non-empty digit string denotes
RECURSIVE Magnitude(_)
Magnitude(digits) ==
    IF Len(digits) = 1 THEN DigitValue(digits[1])
    ELSE 10 * Magnitude(SubSeq(digits, 1, Len(digits) - 1))
            + DigitValue(digits[Len(digits)])

\* Int(String): <<>> for nil, else <<value>>; an optional sign and digits
IntArg(str) ==
    IF str # <<>> /\ Head(str) \in {"-", "+"}
    THEN (IF AllDigits(Tail(str))
          THEN <<(IF Head(str) = "-" THEN -1 ELSE 1) * Magnitude(Tail(str))>>
          ELSE <<>>)
    ELSE IF AllDigits(str) THEN <<Magnitude(str)>> ELSE <<>>

\* UInt16(String): <<>> for nil and for a value that does not fit
UInt16Arg(str) ==
    LET digits == IF str # <<>> /\ Head(str) = "+" THEN Tail(str) ELSE str
    IN  IF AllDigits(digits) /\ Magnitude(digits) <= 65535
        THEN <<Magnitude(digits)>> ELSE <<>>

\* Float(String) for a decimal numeral, in hundredths: <<>> for nil; of the
\* fraction's digits the first two count
FloatArg(str) ==
    LET parts == split(str, ".", NoLimit)
        dots == Cardinality({i \in 1..Len(str) : str[i] = "."})
        Hundredths(frac) ==
            10 * DigitValue(frac[1])
                + (IF Len(frac) >= 2 THEN DigitValue(frac[2]) ELSE 0)
    IN  IF dots = 0 /\ AllDigits(str) THEN <<100 * Magnitude(str)>>
        ELSE IF dots = 1 /\ Len(parts) = 2 /\ str[Len(str)] # "."
                /\ AllDigits(parts[1]) /\ AllDigits(parts[2])
             THEN <<100 * Magnitude(parts[1]) + Hundredths(parts[2])>>
        ELSE <<>>

\* Swift.min, Swift.max
min(a, b) == IF b < a THEN b ELSE a

max(a, b) == IF b >= a THEN b ELSE a

\* main.swift:25-28  the values before any argument is read
DefaultFps == 60
DefaultQuality == 70
DefaultPort == 0

\* args.popFirst(): <<>> for nil, else <<the first argument>>
popFirst(list) == IF list = <<>> THEN <<>> ELSE <<Head(list)>>

\* what popFirst leaves
dropFirst(list) == IF list = <<>> THEN <<>> ELSE Tail(list)

\* an argument list that makes main() start with port p and rate f
ArgvFor(p, f) ==
    << <<"--udid">>, SomeUdid, <<"--fps">>, Decimal(f), <<"--port">>, Decimal(p) >>

\* CoreSimulatorBridge.swift:45  the UUID made when the bridge is constructed
callbackID == "UUID-1"

\* -------------------------------------------------------------- I/O ports
\* ports in a list of I/O ports
MaxPorts == 3

\* notifications and timer events of one run
MaxNotes == 3

\* the sizes a display surface can have (IOSurfaceGetWidth,
\* IOSurfaceGetHeight): portrait, landscape and a square that differs from
\* each in one dimension
Surfaces ==
    [width : {390, 844}, height : {390, 844}] \ {[width |-> 844, height |-> 844]}

DefaultSurface == [width |-> 390, height |-> 844]

\* an I/O port as bridge.start sees it: whether it has a descriptor, what
\* the descriptor's framebufferSurface and ioSurface give (<<>> for none) and
\* what its state's displayClass gives (<<>> for a descriptor without state)
PortKinds ==
    { [descriptor |-> FALSE, fb |-> <<>>, ios |-> <<>>, class |-> <<>>],
      [descriptor |-> TRUE, fb |-> <<>>, ios |-> <<>>, class |-> <<0>>],
      [descriptor |-> TRUE, fb |-> <<[width |-> 390, height |-> 390]>>,
       ios |-> <<[width |-> 844, height |-> 390]>>, class |-> <<1>>],
      [descriptor |-> TRUE, fb |-> <<>>,
       ios |-> <<[width |-> 390, height |-> 844]>>, class |-> <<>>],
      [descriptor |-> TRUE, fb |-> <<[width |-> 844, height |-> 390]>>,
       ios |-> <<>>, class |-> <<1>>],
      [descriptor |-> TRUE, fb |-> <<[width |-> 390, height |-> 390]>>,
       ios |-> <<>>, class |-> <<0>>],
      [descriptor |-> TRUE, fb |-> <<DefaultSurface>>, ios |-> <<>>,
       class |-> <<0>>] }

\* the lists of at most n ports
RECURSIVE PortLists(_)
PortLists(n) ==
    IF n = 0 THEN { <<>> }
    ELSE PortLists(n - 1) \cup { l \o <<k>> : l \in PortLists(n - 1), k \in PortKinds }

\* one port, the main display with a surface of the usual size
DefaultPorts ==
    << [descriptor |-> TRUE, fb |-> <<DefaultSurface>>, ios |-> <<>>, class |-> <<0>>] >>

\* CoreSimulatorBridge.swift:102-113  the surface of a port: <<>> for none
surfaceOf(portObj) ==
    IF ~portObj.descriptor THEN <<>>
    ELSE IF portObj.fb # <<>> THEN portObj.fb
    ELSE portObj.ios

\* a candidate that takes the place of an earlier one of the same size
largerOrEqual(surface, sel) ==
    \/ sel = <<>>
    \/ surface.width * surface.height >= sel[1].surface.width * sel[1].surface.height

\* CoreSimulatorBridge.swift:137  the test that makes a port the candidate
larger(surface, sel) ==
    \/ sel = <<>>
    \/ surface.width * surface.height > sel[1].surface.width * sel[1].surface.height

\* CoreSimulatorBridge.swift:79-143  the loop over the ports from port i on,
\* sel being mainDisplaySurface and displayDescriptor so far: <<>> for nil,
\* else <<the port's index and its surface>>
RECURSIVE scanPorts(_, _, _)
scanPorts(ports, i, sel) ==
    IF i > Len(ports) THEN sel
    ELSE LET surface == surfaceOf(ports[i])
             this == <<[port |-> i, surface |-> surface[1]]>>
         IN  IF surface = <<>> THEN scanPorts(ports, i + 1, sel)
             ELSE IF ports[i].class = <<0>> THEN this
             ELSE IF larger(surface[1], sel) THEN scanPorts(ports, i + 1, this)
             ELSE scanPorts(ports, i + 1, sel)

\* the HTTP requests that call getOrCreateSession, and the simulators
Callers == {"k1", "k2"}

Udids == {"u1", "u2"}

\* spawned processes over all calls
MaxSpawns == 3

\* the WebSocket connections of the browser clients, each opened once
WsClients == {"w1", "w2"}

\* streamFramesToWebSocket calls, running or awaited, over all clients
MaxStreams == 2

NoCall == [pc |-> "idle", udid |-> "", session |-> 0]

\* part_003:32  the orchestrator with an empty cache and no call under way
InitOrchestrator ==
    /\ sessionCache = [u \in Udids |-> <<>>]
    /\ calls = [k \in Callers |-> NoCall]
    /\ procs = <<>>
    /\ clients = [w \in WsClients |-> "new"]
    /\ subscriptions = [w \in WsClients |-> {}]
    /\ streams = <<>>
    /\ activeStreams = [u \in Udids |-> 0]
    /\ starting = {}
    /\ wsEvent = [type |-> "none", ws |-> "", udid |-> ""]

\* the arguments are read: a UDID was given and the quality left alone
InitParsed ==
    /\ argsLeft = <<>>
    /\ udid = <<SomeUdid>>
    /\ quality = DefaultQuality

\* the bridge before start(): nothing registered, no timer, and no encoder
\* before the first surface (main.swift:140)
InitBridge ==
    /\ registeredUUID = <<>>
    /\ pollingTimer = FALSE
    /\ ioPorts = <<>>
    /\ displayDescriptor = <<>>
    /\ stopped = FALSE
    /\ currentSurface = <<>>
    /\ surfaceQueue = <<>>
    /\ inHandler = <<>>
    /\ notified = 0
    /\ notes = <<>>
    /\ lastNil = 0
    /\ encoder = <<>>
    /\ encoded = <<>>
    /\ semaphore = 0
    /\ lateCallbacks = 0

InitDriver ==
    /\ mainPc = "http_start"
    /\ exitCode = -1
    /\ port \in {0, 8080}
    /\ fps \in {1, 2}
    /\ listening = FALSE
    /\ boundPort = 0
    /\ touchHandler = "nil"
    /\ fpsReporting = FALSE
    /\ sinceFrame = 0
    /\ sinceReport = 0
    /\ stdout = <<>>
    /\ cmdPc = "idle"
    /\ command = NoCommand
    /\ commandCount = 0
    /\ line = NoLine
    /\ stdinEof = FALSE
    /\ lastLog = "none"
    /\ touchQueue = <<>>
    /\ hidSent = <<>>
    /\ hidClient = <<>>
    /\ hidLog = <<>>
    /\ argv = ArgvFor(port, fps)
    /\ InitParsed
    /\ InitBridge
    /\ InitOrchestrator

\* main() before it reads its arguments, given one of the lists
InitArgs(lists) ==
    /\ mainPc = "parse_args"
    /\ exitCode = -1
    /\ port = DefaultPort
    /\ fps = DefaultFps
    /\ listening = FALSE
    /\ boundPort = 0
    /\ touchHandler = "nil"
    /\ fpsReporting = FALSE
    /\ sinceFrame = 0
    /\ sinceReport = 0
    /\ stdout = <<>>
    /\ cmdPc = "idle"
    /\ command = NoCommand
    /\ commandCount = 0
    /\ line = NoLine
    /\ stdinEof = FALSE
    /\ lastLog = "none"
    /\ touchQueue = <<>>
    /\ hidSent = <<>>
    /\ hidClient = <<>>
    /\ hidLog = <<>>
    /\ argv \in lists
    /\ argsLeft = argv
    /\ udid = <<>>
    /\ quality = DefaultQuality
    /\ InitBridge
    /\ InitOrchestrator

\* HTTPServer.swift:9
capacity == 5

\* the server with the first n submitted frames appended and no connection yet
InitServer(n) ==
    /\ submitted = n
    /\ frameQueue = <<>>
    /\ frames = [i \in 1..submitted |-> i]
    /\ readIndex = 0
    /\ clientPc = [c \in Clients |-> "none"]
    /\ sockOpen = [c \in Clients |-> FALSE]
    /\ batch = [c \in Clients |-> <<>>]
    /\ lastSent = [c \in Clients |-> 0]
    /\ failed = [c \in Clients |-> FALSE]
    /\ cursorAt = [c \in Clients |-> 0]
    /\ headers = [c \in Clients |-> <<>>]
    /\ lastPart = [c \in Clients |-> <<>>]

Init == InitDriver /\ InitServer(0)

\* -------------------------------------------------------------- main thread
Running == exitCode = -1

\* exit(code): the whole process ends, every thread with it
Exit(code) ==
    /\ mainPc' = "exited"
    /\ exitCode' = code
    /\ cmdPc' = "stopped"

\* main.swift:34-60  one turn of the argument loop: the argument is taken
\* and, for a flag with a value, so is whatever argument follows it; the
\* quality is in hundredths
ParseArg ==
    /\ Running /\ mainPc = "parse_args" /\ argsLeft # <<>>
    /\ LET arg == Head(argsLeft)
           rest == Tail(argsLeft)
           val == popFirst(rest)
       IN  CASE arg = <<"--udid">> ->
                  /\ udid' = val
                  /\ argsLeft' = dropFirst(rest)
                  /\ UNCHANGED <<fps, quality, port, lastLog, mainPc, exitCode, cmdPc>>
             [] arg = <<"--fps">> ->
                  /\ fps' = IF val # <<>> /\ IntArg(val[1]) # <<>>
                            THEN min(120, max(1, IntArg(val[1])[1])) ELSE fps
                  /\ argsLeft' = dropFirst(rest)
                  /\ UNCHANGED <<udid, quality, port, lastLog, mainPc, exitCode, cmdPc>>
             [] arg = <<"--quality">> ->
                  /\ quality' = IF val # <<>> /\ FloatArg(val[1]) # <<>>
                                THEN min(100, max(10, FloatArg(val[1])[1]))
                                ELSE quality
                  /\ argsLeft' = dropFirst(rest)
                  /\ UNCHANGED <<udid, fps, port, lastLog, mainPc, exitCode, cmdPc>>
             [] arg = <<"--port">> ->
                  /\ port' = IF val # <<>> /\ UInt16Arg(val[1]) # <<>>
                             THEN UInt16Arg(val[1])[1] ELSE port
                  /\ argsLeft' = dropFirst(rest)
                  /\ UNCHANGED <<udid, fps, quality, lastLog, mainPc, exitCode, cmdPc>>
             [] arg \in { <<"--help">>, <<"-h">> } ->
                  /\ Exit(0)
                  /\ argsLeft' = rest
                  /\ UNCHANGED <<udid, fps, quality, port, lastLog>>
             [] OTHER ->
                  /\ lastLog' = "WARN"
                  /\ argsLeft' = rest
                  /\ UNCHANGED <<udid, fps, quality, port, mainPc, exitCode, cmdPc>>
    /\ UNCHANGED serverVars
    /\ UNCHANGED <<argv, bridgeVars, queueVars, encVars, orchVars, wsVars>>
    /\ UNCHANGED <<listening, boundPort, touchHandler, fpsReporting, sinceFrame,
                   sinceReport, stdout, command, commandCount>>
    /\ UNCHANGED <<line, stdinEof, touchQueue, hidSent, hidClient, hidLog>>

\* main.swift:62-66  the loop is over: without a UDID the usage is written to
\* stderr and the process exits
CheckUdid ==
    /\ Running /\ mainPc = "parse_args" /\ argsLeft = <<>>
    /\ IF udid = <<>>
       THEN /\ lastLog' = "ERROR"
            /\ Exit(1)
       ELSE /\ mainPc' = "http_start"
            /\ UNCHANGED <<lastLog, exitCode, cmdPc>>
    /\ UNCHANGED serverVars
    /\ UNCHANGED restVars
    /\ UNCHANGED <<port, fps, listening, boundPort, touchHandler, fpsReporting,
                   sinceFrame, sinceReport, stdout, command, commandCount>>
    /\ UNCHANGED <<line, stdinEof, touchQueue, hidSent, hidClient, hidLog>>

ArgStep == ParseArg \/ CheckUdid

\* main.swift:80-88  HTTPServer.start() (HTTPServer.swift:17-72)
HttpStartOk ==
    /\ Running /\ mainPc = "http_start"
    /\ \E p \in (IF port = 0 THEN EphemeralPorts ELSE {port}) : boundPort' = p
    /\ listening' = TRUE
    /\ mainPc' = "touch_start"
    /\ UNCHANGED serverVars
    /\ UNCHANGED restVars
    /\ UNCHANGED cmdIoVars
    /\ UNCHANGED <<exitCode, port, fps, touchHandler, fpsReporting, sinceFrame,
                   sinceReport, stdout, cmdPc, command, commandCount>>

HttpStartFail ==
    /\ Running /\ mainPc = "http_start"
    /\ Exit(1)
    /\ UNCHANGED serverVars
    /\ UNCHANGED restVars
    /\ UNCHANGED cmdIoVars
    /\ UNCHANGED <<port, fps, listening, boundPort, touchHandler, fpsReporting,
                   sinceFrame, sinceReport, stdout, command, commandCount>>

\* part_012:275-314 and main.swift:90-99  start() succeeds only with a HID
\* client, and main keeps no handler when it fails; part_012:577-599  the
\* send method the client answers to: the async send with freeWhenDone, else
\* the synchronous sendWithMessage:, else none
HidClients(handler) ==
    IF handler = "started" THEN {<<"async">>, <<"sync">>, <<"none">>} ELSE {<<>>}

\* main.swift:90-99  a touch handler that fails to start is only logged
TouchStart ==
    /\ Running /\ mainPc = "touch_start"
    /\ touchHandler' \in {"nil", "started"}
    /\ hidClient' \in HidClients(touchHandler')
    /\ mainPc' = "cmd_start"
    /\ UNCHANGED serverVars
    /\ UNCHANGED restVars
    /\ UNCHANGED <<line, stdinEof, lastLog, touchQueue, hidSent, hidLog>>
    /\ UNCHANGED <<exitCode, port, fps, listening, boundPort, fpsReporting,
                   sinceFrame, sinceReport, stdout, cmdPc, command, commandCount>>

\* main.swift:103-137  streaming state, then commandHandler.start
\* (CommandHandler.swift:44-52) puts readCommands on the command queue
CommandStart ==
    /\ Running /\ mainPc = "cmd_start"
    /\ sinceFrame' = 0
    /\ sinceReport' = 0
    /\ fpsReporting' = FALSE
    /\ cmdPc' = "read"
    /\ mainPc' = "bridge_start"
    /\ UNCHANGED serverVars
    /\ UNCHANGED restVars
    /\ UNCHANGED cmdIoVars
    /\ UNCHANGED <<exitCode, port, fps, listening, boundPort, touchHandler,
                   stdout, command, commandCount>>

\* a start that registers the callback and starts the timer as well
BridgeStartedBothModes(ports, responds) ==
    /\ Running /\ mainPc = "bridge_start"
    /\ scanPorts(ports, 1, <<>>) # <<>>
    /\ mainPc' = "print_ready"
    /\ ioPorts' = ports
    /\ displayDescriptor' = <<scanPorts(ports, 1, <<>>)[1].port>>
    /\ currentSurface' = <<scanPorts(ports, 1, <<>>)[1].surface>>
    /\ registeredUUID' = IF responds THEN <<callbackID>> ELSE <<>>
    /\ pollingTimer' = TRUE
    /\ UNCHANGED <<stopped, surfaceQueue, inHandler, notified, notes, lastNil>>
    /\ UNCHANGED serverVars
    /\ UNCHANGED <<argVars, encVars, orchVars, wsVars>>
    /\ UNCHANGED cmdIoVars
    /\ UNCHANGED <<exitCode, port, fps, listening, boundPort, touchHandler,
                   fpsReporting, sinceFrame, sinceReport, stdout,
                   cmdPc, command, commandCount>>

\* main.swift:144-183  bridge.start returns true (CoreSimulatorBridge.swift:
\* 57-200): the surface callback is registered under callbackID when the
\* descriptor responds to the selector, else the polling timer is started
BridgeStarted(ports, responds) ==
    /\ Running /\ mainPc = "bridge_start"
    /\ scanPorts(ports, 1, <<>>) # <<>>
    /\ mainPc' = "print_ready"
    /\ ioPorts' = ports
    /\ displayDescriptor' = <<scanPorts(ports, 1, <<>>)[1].port>>
    /\ currentSurface' = <<scanPorts(ports, 1, <<>>)[1].surface>>
    /\ registeredUUID' = IF responds THEN <<callbackID>> ELSE <<>>
    /\ pollingTimer' = ~responds
    /\ UNCHANGED <<stopped, surfaceQueue, inHandler, notified, notes, lastNil>>
    /\ UNCHANGED serverVars
    /\ UNCHANGED <<argVars, encVars, orchVars, wsVars>>
    /\ UNCHANGED cmdIoVars
    /\ UNCHANGED <<exitCode, port, fps, listening, boundPort, touchHandler,
                   fpsReporting, sinceFrame, sinceReport, stdout,
                   cmdPc, command, commandCount>>

BridgeStartOk == BridgeStarted(DefaultPorts, TRUE)

\* CoreSimulatorBridge.swift:190-197
BridgeStartPolling == BridgeStarted(DefaultPorts, FALSE)

\* a failed bridge start that is logged and passed over
BridgeStartFailIgnored ==
    /\ Running /\ mainPc = "bridge_start"
    /\ mainPc' = "print_ready"
    /\ UNCHANGED serverVars
    /\ UNCHANGED restVars
    /\ UNCHANGED cmdIoVars
    /\ UNCHANGED <<exitCode, port, fps, listening, boundPort, touchHandler,
                   fpsReporting, sinceFrame, sinceReport, stdout,
                   cmdPc, command, commandCount>>

\* CoreSimulatorBridge.swift:57-145: a resolution step fails, start returns
\* false and main exits (main.swift:178-181)
BridgeStartFail ==
    /\ Running /\ mainPc = "bridge_start"
    /\ Exit(1)
    /\ UNCHANGED serverVars
    /\ UNCHANGED restVars
    /\ UNCHANGED cmdIoVars
    /\ UNCHANGED <<port, fps, listening, boundPort, touchHandler, fpsReporting,
                   sinceFrame, sinceReport, stdout, command, commandCount>>

\* CoreSimulatorBridge.swift:145-148  no port of the list has a surface:
\* start returns false and main exits (main.swift:178-181)
BridgeNoSurface(ports) ==
    /\ Running /\ mainPc = "bridge_start"
    /\ scanPorts(ports, 1, <<>>) = <<>>
    /\ ioPorts' = ports
    /\ Exit(1)
    /\ UNCHANGED serverVars
    /\ UNCHANGED <<registeredUUID, pollingTimer, displayDescriptor, stopped>>
    /\ UNCHANGED <<argVars, queueVars, encVars, orchVars, wsVars>>
    /\ UNCHANGED cmdIoVars
    /\ UNCHANGED <<port, fps, listening, boundPort, touchHandler, fpsReporting,
                   sinceFrame, sinceReport, stdout, command, commandCount>>

\* the handshake printed with the requested port instead of the bound one
PrintReadyRequestedPort ==
    /\ Running /\ mainPc = "print_ready"
    /\ stdout' = PrintLn(stdout, ReadyText(port))
    /\ mainPc' = "loop_wait"
    /\ UNCHANGED serverVars
    /\ UNCHANGED restVars
    /\ UNCHANGED cmdIoVars
    /\ UNCHANGED <<exitCode, port, fps, listening, boundPort, touchHandler,
                   fpsReporting, sinceFrame, sinceReport, cmdPc, command, commandCount>>

\* main.swift:186-187
PrintReady ==
    /\ Running /\ mainPc = "print_ready"
    /\ stdout' = PrintLn(stdout, ReadyText(boundPort))
    /\ mainPc' = "loop_wait"
    /\ UNCHANGED serverVars
    /\ UNCHANGED restVars
    /\ UNCHANGED cmdIoVars
    /\ UNCHANGED <<exitCode, port, fps, listening, boundPort, touchHandler,
                   fpsReporting, sinceFrame, sinceReport, cmdPc, command, commandCount>>

\* frameInterval = 1.0 / fps, in ticks
FrameTicks == TicksPerSec \div fps

MaxLag == TicksPerSec + ExtraLag

\* main.swift:195-203  wait until targetTime, lastFrameTime = targetTime
LoopWait ==
    /\ Running /\ mainPc = "loop_wait"
    /\ sinceFrame >= FrameTicks
    /\ sinceFrame' = sinceFrame - FrameTicks
    /\ mainPc' = "loop_check"
    /\ UNCHANGED serverVars
    /\ UNCHANGED restVars
    /\ UNCHANGED cmdIoVars
    /\ UNCHANGED <<exitCode, port, fps, listening, boundPort, touchHandler,
                   fpsReporting, sinceReport, stdout, cmdPc, command, commandCount>>

\* the condition with its flag test inverted
ReportDueInverted == ~fpsReporting /\ sinceReport >= TicksPerSec

\* main.swift:206  the condition of the report
ReportDue == fpsReporting /\ sinceReport >= TicksPerSec

LoopCheck ==
    /\ Running /\ mainPc = "loop_check"
    /\ mainPc' = IF ReportDue THEN "loop_print" ELSE "loop_wait"
    /\ UNCHANGED serverVars
    /\ UNCHANGED restVars
    /\ UNCHANGED cmdIoVars
    /\ UNCHANGED <<exitCode, port, fps, listening, boundPort, touchHandler,
                   fpsReporting, sinceFrame, sinceReport, stdout,
                   cmdPc, command, commandCount>>

\* main.swift:207-219
LoopPrint ==
    /\ Running /\ mainPc = "loop_print"
    /\ NumReports < MaxReports
    /\ stdout' = PrintLn(stdout, FpsReportText)
    /\ sinceReport' = 0
    /\ mainPc' = "loop_wait"
    /\ UNCHANGED serverVars
    /\ UNCHANGED restVars
    /\ UNCHANGED cmdIoVars
    /\ UNCHANGED <<exitCode, port, fps, listening, boundPort, touchHandler,
                   fpsReporting, sinceFrame, cmdPc, command, commandCount>>

\* the clock (CFAbsoluteTimeGetCurrent) advances by one tick
Tick ==
    /\ Running
    /\ mainPc \notin {"http_start", "touch_start", "cmd_start"}
    /\ sinceFrame' = IF sinceFrame < MaxLag THEN sinceFrame + 1 ELSE sinceFrame
    /\ sinceReport' = IF sinceReport < TicksPerSec THEN sinceReport + 1 ELSE sinceReport
    /\ UNCHANGED serverVars
    /\ UNCHANGED restVars
    /\ UNCHANGED cmdIoVars
    /\ UNCHANGED <<mainPc, exitCode, port, fps, listening, boundPort, touchHandler,
                   fpsReporting, stdout, cmdPc, command, commandCount>>

\* ----------------------------------------------------------- command thread
\* CommandHandler.swift:58-67  one turn of the reader loop on a line that
\* stdin holds: a nil String ends the loop like the end of input does
CmdRead(lines) ==
    /\ Running /\ cmdPc = "read"
    /\ commandCount < MaxCommands
    /\ \E l \in lines :
          LET str == readLineString(l \o <<NL>>)
          IN  IF str = NoLine
              THEN /\ cmdPc' = "stopped"
                   /\ UNCHANGED <<line, command, commandCount>>
              ELSE /\ line' = str
                   /\ commandCount' = commandCount + 1
                   /\ command' = parseCommand(str)
                   /\ cmdPc' = "dispatch"
    /\ UNCHANGED serverVars
    /\ UNCHANGED restVars
    /\ UNCHANGED <<mainPc, exitCode, port, fps, listening, boundPort, touchHandler,
                   fpsReporting, sinceFrame, sinceReport, stdout>>
    /\ UNCHANGED <<stdinEof, lastLog, touchQueue, hidSent, hidClient, hidLog>>

\* CommandHandler.swift:64-67  stdin closed
CmdEofExits ==
    /\ Running /\ cmdPc = "read"
    /\ Exit(0)
    /\ stdinEof' = TRUE
    /\ UNCHANGED serverVars
    /\ UNCHANGED restVars
    /\ UNCHANGED <<port, fps, listening, boundPort, touchHandler,
                   fpsReporting, sinceFrame, sinceReport, stdout, command, commandCount>>
    /\ UNCHANGED <<line, lastLog, touchQueue, hidSent, hidClient, hidLog>>

CmdEof ==
    /\ Running /\ cmdPc = "read"
    /\ cmdPc' = "stopped"
    /\ stdinEof' = TRUE
    /\ UNCHANGED serverVars
    /\ UNCHANGED restVars
    /\ UNCHANGED <<mainPc, exitCode, port, fps, listening, boundPort, touchHandler,
                   fpsReporting, sinceFrame, sinceReport, stdout, command, commandCount>>
    /\ UNCHANGED <<line, lastLog, touchQueue, hidSent, hidClient, hidLog>>

\* main.swift:128-130
CmdFps ==
    /\ Running /\ cmdPc = "dispatch" /\ command.kind = "fps"
    /\ lastLog' = "INFO"
    /\ fpsReporting' = command.enabled
    /\ cmdPc' = "read"
    /\ command' = NoCommand
    /\ line' = NoLine
    /\ UNCHANGED serverVars
    /\ UNCHANGED restVars
    /\ UNCHANGED <<mainPc, exitCode, port, fps, listening, boundPort, touchHandler,
                   sinceFrame, sinceReport, stdout, commandCount>>
    /\ UNCHANGED <<stdinEof, touchQueue, hidSent, hidClient, hidLog>>

\* main.swift:131-133  exit does not return: the callback never ends
CmdShutdownReturns ==
    /\ Running /\ cmdPc = "dispatch" /\ command.kind = "shutdown"
    /\ lastLog' = "INFO"
    /\ cmdPc' = "read"
    /\ command' = NoCommand
    /\ line' = NoLine
    /\ UNCHANGED serverVars
    /\ UNCHANGED restVars
    /\ UNCHANGED <<mainPc, exitCode, port, fps, listening, boundPort, touchHandler,
                   fpsReporting, sinceFrame, sinceReport, stdout, commandCount>>
    /\ UNCHANGED <<stdinEof, touchQueue, hidSent, hidClient, hidLog>>

CmdShutdown ==
    /\ Running /\ cmdPc = "dispatch" /\ command.kind = "shutdown"
    /\ lastLog' = "INFO"
    /\ Exit(0)
    /\ UNCHANGED serverVars
    /\ UNCHANGED restVars
    /\ UNCHANGED <<port, fps, listening, boundPort, touchHandler, fpsReporting,
                   sinceFrame, sinceReport, stdout, command, commandCount>>
    /\ UNCHANGED <<line, stdinEof, touchQueue, hidSent, hidClient, hidLog>>

\* main.swift:119-120, 124-127, 134-135  the level each command is logged at
LogLevel(kind) ==
    CASE kind = "unknown" -> "WARN"
      [] kind \in {"touch", "key"} -> "DEBUG"
      [] OTHER -> "INFO"

\* main.swift:119-120, 124-127, 134-135  commands that are only logged
CmdOther ==
    /\ Running /\ cmdPc = "dispatch"
    /\ command.kind \in {"rotate", "button", "key", "unknown"}
    /\ lastLog' = LogLevel(command.kind)
    /\ cmdPc' = "read"
    /\ command' = NoCommand
    /\ line' = NoLine
    /\ UNCHANGED serverVars
    /\ UNCHANGED restVars
    /\ UNCHANGED <<mainPc, exitCode, port, fps, listening, boundPort, touchHandler,
                   fpsReporting, sinceFrame, sinceReport, stdout, commandCount>>
    /\ UNCHANGED <<stdinEof, touchQueue, hidSent, hidClient, hidLog>>

\* main.swift:121-123 and TouchHandler.sendTouch: with a HID client the
\* points are handed to the handler's serial queue as one block
CmdTouch ==
    /\ Running /\ cmdPc = "dispatch" /\ command.kind = "touch"
    /\ lastLog' = LogLevel(command.kind)
    /\ touchQueue' =
          IF touchHandler = "started"
          THEN Append(touchQueue, [type |-> command.type, points |-> command.points,
                                   cmd |-> commandCount])
          ELSE touchQueue
    /\ cmdPc' = "read"
    /\ command' = NoCommand
    /\ line' = NoLine
    /\ UNCHANGED serverVars
    /\ UNCHANGED restVars
    /\ UNCHANGED <<mainPc, exitCode, port, fps, listening, boundPort, touchHandler,
                   fpsReporting, sinceFrame, sinceReport, stdout, commandCount>>
    /\ UNCHANGED <<stdinEof, hidSent, hidClient, hidLog>>

\* TouchHandler.sendTouchEvent: the fields of the message that vary
sendTouchEvent(x, y, touchType) ==
    [eventType |-> 2, xRatio |-> x, yRatio |-> y,
     field9 |-> IF touchType \in {"began", "moved"} THEN 1 ELSE 0,
     field10 |-> IF touchType \in {"began", "moved"} THEN 1 ELSE 0]

freedByClientOnly(send) ==
    [injector |-> IF send = "none" THEN 1 ELSE 0,
     client |-> IF send = "async" THEN 1 ELSE 0]

\* part_012:577-600  who releases the buffer sendTouchEvent allocated: the HID
\* client after the async send (freeWhenDone: true), else the deallocate()
\* that follows the synchronous send or the missing send method
freedBy(send) ==
    [injector |-> IF send = "async" THEN 0 ELSE 1,
     client |-> IF send = "async" THEN 1 ELSE 0]

TouchRunStopsAtFailure ==
    /\ Running /\ touchQueue # <<>>
    /\ \E error \in BOOLEAN :
          /\ error => hidClient = <<"async">>
          /\ LET block == Head(touchQueue)
                 failedBefore == \E k \in 1..Len(hidLog) : hidLog[k].error
                 sent == IF failedBefore THEN 0 ELSE Len(block.points)
             IN  /\ hidSent' = [i \in 1..sent |->
                                   sendTouchEvent(block.points[i][1],
                                                  block.points[i][2], block.type)]
                 /\ hidLog' = hidLog \o
                       [i \in 1..sent |->
                          [cmd |-> block.cmd, point |-> i, send |-> hidClient[1],
                           error |-> error, freed |-> freedBy(hidClient[1])]]
    /\ touchQueue' = Tail(touchQueue)
    /\ UNCHANGED serverVars
    /\ UNCHANGED restVars
    /\ UNCHANGED <<mainPc, exitCode, port, fps, listening, boundPort, touchHandler,
                   fpsReporting, sinceFrame, sinceReport, stdout,
                   cmdPc, command, commandCount>>
    /\ UNCHANGED <<line, stdinEof, lastLog, hidClient>>

\* TouchHandler.sendTouch, the block run by the handler's queue: one
\* sendTouchEvent for each point, in the order of the points; the completion
\* of a failed async send only logs (part_012:584-588)
TouchRun ==
    /\ Running /\ touchQueue # <<>>
    /\ \E error \in BOOLEAN :
          /\ error => hidClient = <<"async">>
          /\ LET block == Head(touchQueue)
             IN  /\ hidSent' = [i \in 1..Len(block.points) |->
                                   sendTouchEvent(block.points[i][1],
                                                  block.points[i][2], block.type)]
                 /\ hidLog' = hidLog \o
                       [i \in 1..Len(block.points) |->
                          [cmd |-> block.cmd, point |-> i, send |-> hidClient[1],
                           error |-> error, freed |-> freedBy(hidClient[1])]]
    /\ touchQueue' = Tail(touchQueue)
    /\ UNCHANGED serverVars
    /\ UNCHANGED restVars
    /\ UNCHANGED <<mainPc, exitCode, port, fps, listening, boundPort, touchHandler,
                   fpsReporting, sinceFrame, sinceReport, stdout,
                   cmdPc, command, commandCount>>
    /\ UNCHANGED <<line, stdinEof, lastLog, hidClient>>

\* ------------------------------------------------------------ MJPEG server
\* the index of the newest frame the ring has held (0 before the first)
Latest == IF frames = <<>> THEN 0 ELSE frames[Len(frames)]

\* an append that never evicts
appendUnbounded(fr, f) == Append(fr, f)

\* CircularFrameBuffer.append (HTTPServer.swift:187-195)
append(fr, f) ==
    LET added == Append(fr, f)
    IN  IF Len(added) > capacity THEN Tail(added) ELSE added

\* CircularFrameBuffer.getNewFrames (HTTPServer.swift:205-216), the result
getNewFrames(fr, ri) ==
    IF ri >= Len(fr) THEN <<>> ELSE SubSeq(fr, ri + 1, Len(fr))

\* ------------------------------------------------------- bytes on the wire
\* A buffer handed to write() is a sequence of tokens in which "\r", "\n"
\* and every payload byte are tokens of their own.
CRLF == <<"\r", "\n">>

\* HTTPServer.swift:117
responseHeader ==
    <<"HTTP/1.1 200 OK">> \o CRLF
    \o <<"Content-Type: multipart/x-mixed-replace; boundary=--mjpegstream">> \o CRLF
    \o <<"Connection: close">> \o CRLF
    \o CRLF

\* the encoded bytes of frame f as submitFrame received them
\* (HTTPServer.swift:74): a JPEG of f + 4 bytes, so lengths differ by frame
JpegData(f) == <<"FF", "D8">> \o [i \in 1..f |-> "00"] \o <<"FF", "D9">>

\* HTTPServer.swift:155-172
writeMJPEGFrameNoTrailer(jpegData) ==
    <<"--mjpegstream">> \o CRLF
    \o <<"Content-Type: image/jpeg">> \o CRLF
    \o <<"Content-Length: ">> \o Decimal(Len(jpegData)) \o CRLF
    \o CRLF
    \o jpegData

writeMJPEGFrame(jpegData) ==
    <<"--mjpegstream">> \o CRLF
    \o <<"Content-Type: image/jpeg">> \o CRLF
    \o <<"Content-Length: ">> \o Decimal(Len(jpegData)) \o CRLF
    \o CRLF
    \o jpegData
    \o CRLF

\* outcomes of write(): the full count, a short count, or -1
WriteResults == {"ok", "short", "error"}

WritePcs == {"write_header", "warmup", "stream"}

\* ---------------------------------------------------------------- encoder
\* output handlers that are outstanding or have signalled unheard
MaxLate == 2

\* the two copies of the JPEGEncoder class are named by the file that holds
\* them, part_012 and part_007
\* JPEGEncoder.init (part_012:22-52, part_007:18-45): the session is kept
\* only when VTCompressionSessionCreate succeeds
JPEGEncoder(width, height, created, copy) ==
    [width |-> width, height |-> height,
     session |-> IF created THEN "hw" ELSE "nil", copy |-> copy]

\* JPEGEncoder.encodeWithCoreGraphics (part_012:115-170): Data?, <<>> for nil
encodeWithCoreGraphics(sw) == IF sw = "ok" THEN <<"sw">> ELSE <<>>

\* encoder.encode(pixelBuffer): Data?, <<>> for nil, else the path that
\* produced the bytes. submit is the status of
\* VTCompressionSessionEncodeFrame; callback is the output handler by the
\* time semaphore.wait returns: it has stored the data, it has reported a
\* failure (and does not signal), or it has not run yet (the 100 ms passed,
\* or an earlier late signal ended the wait at once). In part_012:62-113
\* every path without data goes on to CoreGraphics; in part_007:53-89 the
\* result of the wait is returned as it is after a submit that succeeded
\* (part_007:82-85)
encode(enc, submit, callback, sw) ==
    IF enc.session = "nil" THEN encodeWithCoreGraphics(sw)
    ELSE IF submit = "noErr" /\ callback = "data" THEN <<"hw">>
    ELSE IF submit = "noErr" /\ enc.copy = "part_007" THEN <<>>
    ELSE encodeWithCoreGraphics(sw)

\* the handler with an encoder that is made once and then kept
SurfaceUpdateKeepsEncoder(surface, created, copy, pix, submit, callback, sw) ==
    /\ Running /\ mainPc \in {"print_ready", "loop_wait", "loop_check", "loop_print"}
    /\ submitted < Preload + MaxFrames
    /\ Cardinality({i \in 1..Len(frameQueue) : frameQueue[i].op = "append"}) < MaxPending
    /\ callback = "late" => semaphore + lateCallbacks < MaxLate
    /\ IF surface = <<>>
       THEN UNCHANGED <<encVars, submitted, frameQueue>>
       ELSE LET enc == IF encoder = <<>>
                       THEN <<JPEGEncoder(surface[1].width, surface[1].height, created, copy)>>
                       ELSE encoder
                jpegData == IF pix THEN encode(enc[1], submit, callback, sw) ELSE <<>>
                \* a new encoder has a semaphore of its own, and the handlers
                \* of the old one find self gone
                count == IF enc = encoder THEN semaphore ELSE 0
                late == IF enc = encoder THEN lateCallbacks ELSE 0
                \* encode gets to semaphore.wait
                waits == pix /\ enc[1].session = "hw" /\ submit = "noErr"
                signals == IF callback = "data" THEN 1 ELSE 0
            IN  /\ encoder' = enc
                /\ semaphore' = IF waits THEN max(0, count + signals - 1) ELSE count
                /\ lateCallbacks' = IF waits /\ callback = "late" THEN late + 1 ELSE late
                /\ encoded' = <<[surface |-> surface[1],
                                 width |-> enc[1].width, height |-> enc[1].height,
                                 session |-> enc[1].session, copy |-> enc[1].copy,
                                 recreated |-> FALSE, pix |-> pix,
                                 submit |-> submit, callback |-> callback,
                                 sw |-> sw, jpegData |-> jpegData,
                                 early |-> waits /\ count > 0 /\ callback = "late"]>>
                /\ IF jpegData # <<>>
                   THEN /\ submitted' = submitted + 1
                        /\ frameQueue' = Append(frameQueue,
                                [op |-> "append", frame |-> submitted + 1])
                   ELSE UNCHANGED <<submitted, frameQueue>>
    /\ UNCHANGED <<frames, readIndex, clientPc, sockOpen, batch, lastSent,
                   failed, cursorAt>>
    /\ UNCHANGED driverVars
    /\ UNCHANGED <<argVars, bridgeVars, orchVars, wsVars>>
    /\ UNCHANGED wireVars

\* main.swift:143-176  the surface handler, run on the bridge's serial
\* surfaceUpdateQueue: the encoder is made or replaced after the size check
\* (main.swift:156-162; every encoder of a process is of the copy the
\* process was built with), the surface encoded and the bytes handed to
\* HTTPServer.submitFrame (HTTPServer.swift:74-78), which puts the append
\* block on frameQueue without waiting
SurfaceUpdate(surface, created, copy, pix, submit, callback, sw) ==
    /\ Running /\ mainPc \in {"print_ready", "loop_wait", "loop_check", "loop_print"}
    /\ submitted < Preload + MaxFrames
    /\ Cardinality({i \in 1..Len(frameQueue) : frameQueue[i].op = "append"}) < MaxPending
    /\ callback = "late" => semaphore + lateCallbacks < MaxLate
    /\ IF surface = <<>>
       THEN UNCHANGED <<encVars, submitted, frameQueue>>
       ELSE LET sf == surface[1]
                enc == IF encoder = <<>>
                       THEN <<JPEGEncoder(sf.width, sf.height, created, copy)>>
                       ELSE IF encoder[1].width # sf.width
                                \/ encoder[1].height # sf.height
                            THEN <<JPEGEncoder(sf.width, sf.height, created,
                                               encoder[1].copy)>>
                       ELSE encoder
                jpegData == IF pix THEN encode(enc[1], submit, callback, sw) ELSE <<>>
                \* a new encoder has a semaphore of its own, and the handlers
                \* of the old one find self gone
                count == IF enc = encoder THEN semaphore ELSE 0
                late == IF enc = encoder THEN lateCallbacks ELSE 0
                \* encode gets to semaphore.wait
                waits == pix /\ enc[1].session = "hw" /\ submit = "noErr"
                signals == IF callback = "data" THEN 1 ELSE 0
            IN  /\ encoder' = enc
                /\ semaphore' = IF waits THEN max(0, count + signals - 1) ELSE count
                /\ lateCallbacks' = IF waits /\ callback = "late" THEN late + 1 ELSE late
                /\ encoded' = <<[surface |-> surface[1],
                                 width |-> enc[1].width, height |-> enc[1].height,
                                 session |-> enc[1].session, copy |-> enc[1].copy,
                                 recreated |-> encoder # <<>> /\ enc # encoder,
                                 pix |-> pix,
                                 submit |-> submit, callback |-> callback,
                                 sw |-> sw, jpegData |-> jpegData,
                                 early |-> waits /\ count > 0 /\ callback = "late"]>>
                /\ IF jpegData # <<>>
                   THEN /\ submitted' = submitted + 1
                        /\ frameQueue' = Append(frameQueue,
                                [op |-> "append", frame |-> submitted + 1])
                   ELSE UNCHANGED <<submitted, frameQueue>>
    /\ UNCHANGED <<frames, readIndex, clientPc, sockOpen, batch, lastSent,
                   failed, cursorAt>>
    /\ UNCHANGED driverVars
    /\ UNCHANGED <<argVars, bridgeVars, orchVars, wsVars>>
    /\ UNCHANGED wireVars

\* part_012:74-94  the output handler of an earlier encode runs after that
\* encode's wait has ended: it signals the semaphore, or reports a failure
\* and does not
LateCallback(delivers) ==
    /\ Running
    /\ lateCallbacks > 0
    /\ lateCallbacks' = lateCallbacks - 1
    /\ semaphore' = IF delivers THEN semaphore + 1 ELSE semaphore
    /\ UNCHANGED <<encoder, encoded>>
    /\ UNCHANGED <<driverVars, serverVars, argVars, bridgeVars, queueVars, orchVars, wsVars>>

\* the handler for a surface of the usual size that the hardware encodes
SubmitFrame ==
    /\ SurfaceUpdate(<<DefaultSurface>>, TRUE, "part_012", TRUE, "noErr", "data", "ok")
    /\ currentSurface' = <<DefaultSurface>>
    /\ UNCHANGED <<surfaceQueue, inHandler, notified, notes, lastNil>>

\* the callback block for any surface and any outcome of the encoder, from
\* the notification to the end of the handler; an outcome
\* that the handler does not get to see is held at one value: the copy when
\* there is an encoder already, the encoder's outcomes when there is no
\* surface or no pixel buffer, the callback when the submit failed
SurfaceRun ==
    \E surface \in {<<>>} \cup {<<s>> : s \in Surfaces}, created \in BOOLEAN,
       copy \in {"part_012", "part_007"}, pix \in BOOLEAN,
       submit \in {"noErr", "err"}, callback \in {"data", "failed", "late"},
       sw \in {"ok", "fail"} :
        /\ encoder # <<>> => copy = encoder[1].copy
        /\ (surface = <<>> \/ ~pix)
                => submit = "noErr" /\ callback = "data" /\ sw = "ok"
        /\ surface = <<>> => pix
        /\ submit = "err" => callback = "data"
        /\ SurfaceUpdate(surface, created, copy, pix, submit, callback, sw)
        /\ currentSurface' = surface
        /\ UNCHANGED <<surfaceQueue, inHandler, notified, notes, lastNil>>

\* CoreSimulatorBridge.swift:161-162  CoreSimulator calls the registered
\* callback block with the new surface, nil or not, and the block puts its
\* work on surfaceUpdateQueue
SurfaceChanged(surface) ==
    /\ Running /\ registeredUUID # <<>>
    /\ notified < MaxNotes
    /\ notified' = notified + 1
    /\ surfaceQueue' = Append(surfaceQueue,
            [note |-> notified + 1, kind |-> "callback", surface |-> surface])
    /\ UNCHANGED <<currentSurface, inHandler, notes, lastNil>>
    /\ UNCHANGED <<driverVars, serverVars, argVars, bridgeVars, encVars, orchVars, wsVars>>

\* CoreSimulatorBridge.swift:204-206  the timer source fires every 16 ms and
\* its event handler is put on surfaceUpdateQueue, the timer's queue
TimerFired ==
    /\ Running /\ pollingTimer
    /\ notified < MaxNotes
    /\ notified' = notified + 1
    /\ surfaceQueue' = Append(surfaceQueue,
            [note |-> notified + 1, kind |-> "poll", surface |-> <<>>])
    /\ UNCHANGED <<currentSurface, inHandler, notes, lastNil>>
    /\ UNCHANGED <<driverVars, serverVars, argVars, bridgeVars, encVars, orchVars, wsVars>>

\* a queue that starts a block while another is being run
BlockStartConcurrent ==
    /\ Running /\ surfaceQueue # <<>>
    /\ surfaceQueue' = Tail(surfaceQueue)
    /\ inHandler' = IF Head(surfaceQueue).kind = "poll" /\ ~pollingTimer
                    THEN inHandler
                    ELSE Append(inHandler,
                            [note |-> Head(surfaceQueue).note,
                             kind |-> Head(surfaceQueue).kind,
                             surface |-> Head(surfaceQueue).surface,
                             afterStop |-> stopped])
    /\ UNCHANGED <<currentSurface, notified, notes, lastNil>>
    /\ UNCHANGED <<driverVars, serverVars, argVars, bridgeVars, encVars, orchVars, wsVars>>

\* CoreSimulatorBridge.swift:46  surfaceUpdateQueue is a serial queue: it
\* starts its oldest block when no block of it is being run; the event
\* handler of a cancelled timer source is not started
BlockStart ==
    /\ Running /\ surfaceQueue # <<>>
    /\ inHandler = <<>>
    /\ surfaceQueue' = Tail(surfaceQueue)
    /\ inHandler' = IF Head(surfaceQueue).kind = "poll" /\ ~pollingTimer
                    THEN inHandler
                    ELSE Append(inHandler,
                            [note |-> Head(surfaceQueue).note,
                             kind |-> Head(surfaceQueue).kind,
                             surface |-> Head(surfaceQueue).surface,
                             afterStop |-> stopped])
    /\ UNCHANGED <<currentSurface, notified, notes, lastNil>>
    /\ UNCHANGED <<driverVars, serverVars, argVars, bridgeVars, encVars, orchVars, wsVars>>

\* a callback block that hands the handler the surface it had when the new
\* one is nil
BlockEndNilReusesSurface(i, read, created, copy, pix, submit, callback, sw) ==
    LET block == inHandler[i]
        surface == IF block.kind = "poll" THEN read
                   ELSE IF block.surface = <<>> THEN currentSurface
                   ELSE block.surface
    IN  /\ inHandler' = SubSeq(inHandler, 1, i - 1)
                            \o SubSeq(inHandler, i + 1, Len(inHandler))
        /\ SurfaceUpdate(surface, created, copy, pix, submit, callback, sw)
        /\ currentSurface' = IF block.kind = "poll" /\ surface = <<>>
                             THEN currentSurface ELSE surface
        /\ lastNil' = IF block.kind = "callback" /\ block.surface = <<>>
                      THEN block.note ELSE lastNil
        /\ notes' = IF submitted' > submitted
                    THEN Append(notes, block.note) ELSE notes
        /\ UNCHANGED <<surfaceQueue, notified>>

\* CoreSimulatorBridge.swift:163-180 and 211-239  a block that is being run
\* comes to its end: the callback block takes the surface it was called
\* with, the timer's handler the surface it reads from the descriptor; the
\* callback block hands any surface to main's handler, the timer's handler
\* one that is not nil
BlockEnd(i, read, created, copy, pix, submit, callback, sw) ==
    LET block == inHandler[i]
        surface == IF block.kind = "poll" THEN read ELSE block.surface
    IN  /\ inHandler' = SubSeq(inHandler, 1, i - 1)
                            \o SubSeq(inHandler, i + 1, Len(inHandler))
        /\ SurfaceUpdate(surface, created, copy, pix, submit, callback, sw)
        /\ currentSurface' = IF block.kind = "poll" /\ surface = <<>>
                             THEN currentSurface ELSE surface
        /\ lastNil' = IF block.kind = "callback" /\ surface = <<>>
                      THEN block.note ELSE lastNil
        /\ notes' = IF submitted' > submitted
                    THEN Append(notes, block.note) ELSE notes
        /\ UNCHANGED <<surfaceQueue, notified>>

\* the end of any block that is being run, on an encoder whose hardware
\* path works, with or without a pixel buffer for the surface
BlockRun ==
    \E i \in 1..Len(inHandler), read \in {<<>>, <<DefaultSurface>>}, pix \in BOOLEAN :
        /\ inHandler[i].kind = "callback" => read = <<>>
        /\ (inHandler[i].kind = "callback" /\ inHandler[i].surface = <<>>) => pix
        /\ (inHandler[i].kind = "poll" /\ read = <<>>) => pix
        /\ BlockEnd(i, read, TRUE, "part_012", pix, "noErr", "data", "ok")

\* CoreSimulatorBridge.swift:244-264  stop(): the timer is cancelled, the
\* callback unregistered under callbackID when there is a descriptor (one
\* that took the registration responds to the selector that undoes it);
\* displayDescriptor is left as it is
BridgeStop ==
    /\ Running /\ ~stopped
    /\ mainPc \in {"print_ready", "loop_wait", "loop_check", "loop_print"}
    /\ stopped' = TRUE
    /\ pollingTimer' = FALSE
    /\ registeredUUID' = IF displayDescriptor # <<>> THEN <<>> ELSE registeredUUID
    /\ UNCHANGED <<ioPorts, displayDescriptor>>
    /\ UNCHANGED <<driverVars, serverVars, argVars, queueVars, encVars, orchVars, wsVars>>

\* the encoder and the record of the handler after n frames of the usual size
EncoderAfter(n) ==
    /\ encoder = IF n = 0 THEN <<>>
                 ELSE <<JPEGEncoder(DefaultSurface.width, DefaultSurface.height, TRUE,
                                    "part_012")>>
    /\ encoded = IF n = 0 THEN <<>>
                 ELSE <<[surface |-> DefaultSurface,
                         width |-> DefaultSurface.width,
                         height |-> DefaultSurface.height,
                         session |-> "hw", copy |-> "part_012",
                         recreated |-> FALSE,
                         pix |-> TRUE, submit |-> "noErr",
                         callback |-> "data", sw |-> "ok", jpegData |-> <<"hw">>,
                         early |-> FALSE]>>
    /\ semaphore = 0
    /\ lateCallbacks = 0

\* the append block made to wait while a worker is inside write(), as it
\* would if the workers wrote to their sockets on frameQueue
RunAppendAfterWrites ==
    /\ Running
    /\ \A c \in Clients : clientPc[c] \notin WritePcs
    /\ frameQueue # <<>> /\ Head(frameQueue).op = "append"
    /\ frames' = append(frames, Head(frameQueue).frame)
    /\ frameQueue' = Tail(frameQueue)
    /\ UNCHANGED <<submitted, readIndex, clientPc, sockOpen, batch, lastSent,
                   failed, cursorAt>>
    /\ UNCHANGED driverVars
    /\ UNCHANGED restVars
    /\ UNCHANGED wireVars

\* frameQueue runs its oldest block: an append (HTTPServer.swift:76)
RunAppend ==
    /\ Running
    /\ frameQueue # <<>> /\ Head(frameQueue).op = "append"
    /\ frames' = append(frames, Head(frameQueue).frame)
    /\ frameQueue' = Tail(frameQueue)
    /\ UNCHANGED <<submitted, readIndex, clientPc, sockOpen, batch, lastSent,
                   failed, cursorAt>>
    /\ UNCHANGED driverVars
    /\ UNCHANGED restVars
    /\ UNCHANGED wireVars

\* getAllFrames that returns the frames without moving readIndex
RunGetAllKeepIndex ==
    /\ Running
    /\ frameQueue # <<>> /\ Head(frameQueue).op = "getAll"
    /\ LET c == Head(frameQueue).client IN
        /\ batch' = [batch EXCEPT ![c] = frames]
        /\ clientPc' = [clientPc EXCEPT ![c] = IF frames = <<>> THEN "drain" ELSE "warmup"]
        /\ cursorAt' = [cursorAt EXCEPT ![c] = Latest]
    /\ frameQueue' = Tail(frameQueue)
    /\ UNCHANGED <<submitted, frames, readIndex, sockOpen, lastSent, failed>>
    /\ UNCHANGED driverVars
    /\ UNCHANGED restVars
    /\ UNCHANGED wireVars

\* frameQueue runs getAllFrames for a connection (HTTPServer.swift:123,
\* 197-203); an empty snapshot leaves nothing to write before the drain loop
RunGetAll ==
    /\ Running
    /\ frameQueue # <<>> /\ Head(frameQueue).op = "getAll"
    /\ LET c == Head(frameQueue).client IN
        /\ batch' = [batch EXCEPT ![c] = frames]
        /\ clientPc' = [clientPc EXCEPT ![c] = IF frames = <<>> THEN "drain" ELSE "warmup"]
        /\ cursorAt' = [cursorAt EXCEPT ![c] = Latest]
    /\ readIndex' = Len(frames)
    /\ frameQueue' = Tail(frameQueue)
    /\ UNCHANGED <<submitted, frames, sockOpen, lastSent, failed>>
    /\ UNCHANGED driverVars
    /\ UNCHANGED restVars
    /\ UNCHANGED wireVars

\* getNewFrames that leaves readIndex one past the count
RunGetNewPastEnd ==
    /\ Running
    /\ frameQueue # <<>> /\ Head(frameQueue).op = "getNew"
    /\ LET c == Head(frameQueue).client
           newFrames == getNewFrames(frames, readIndex)
       IN
        /\ batch' = [batch EXCEPT ![c] = newFrames]
        /\ clientPc' = [clientPc EXCEPT ![c] = IF newFrames = <<>> THEN "sleep" ELSE "stream"]
        /\ cursorAt' = [cursorAt EXCEPT ![c] = Latest]
        /\ readIndex' = IF newFrames = <<>> THEN readIndex ELSE Len(frames) + 1
    /\ frameQueue' = Tail(frameQueue)
    /\ UNCHANGED <<submitted, frames, sockOpen, lastSent, failed>>
    /\ UNCHANGED driverVars
    /\ UNCHANGED restVars
    /\ UNCHANGED wireVars

\* frameQueue runs getNewFrames for a connection (HTTPServer.swift:134-139,
\* 205-216)
RunGetNew ==
    /\ Running
    /\ frameQueue # <<>> /\ Head(frameQueue).op = "getNew"
    /\ LET c == Head(frameQueue).client
           newFrames == getNewFrames(frames, readIndex)
       IN
        /\ batch' = [batch EXCEPT ![c] = newFrames]
        /\ clientPc' = [clientPc EXCEPT ![c] = IF newFrames = <<>> THEN "sleep" ELSE "stream"]
        /\ cursorAt' = [cursorAt EXCEPT ![c] = Latest]
        /\ readIndex' = IF newFrames = <<>> THEN readIndex ELSE Len(frames)
    /\ frameQueue' = Tail(frameQueue)
    /\ UNCHANGED <<submitted, frames, sockOpen, lastSent, failed>>
    /\ UNCHANGED driverVars
    /\ UNCHANGED restVars
    /\ UNCHANGED wireVars

QueueRun == RunAppend \/ RunGetAll \/ RunGetNew

\* acceptConnections (HTTPServer.swift:89-104): a connection is accepted and
\* handleClient starts on a global queue
Accept(c) ==
    /\ Running /\ listening
    /\ clientPc[c] = "none"
    /\ clientPc' = [clientPc EXCEPT ![c] = "read_request"]
    /\ sockOpen' = [sockOpen EXCEPT ![c] = TRUE]
    /\ UNCHANGED <<submitted, frameQueue, frames, readIndex, batch, lastSent,
                   failed, cursorAt>>
    /\ UNCHANGED driverVars
    /\ UNCHANGED restVars
    /\ UNCHANGED wireVars

\* HTTPServer.swift:113-114  the request is read and discarded
ReadRequest(c) ==
    /\ Running
    /\ clientPc[c] = "read_request"
    /\ clientPc' = [clientPc EXCEPT ![c] = "write_header"]
    /\ UNCHANGED <<submitted, frameQueue, frames, readIndex, sockOpen, batch,
                   lastSent, failed, cursorAt>>
    /\ UNCHANGED driverVars
    /\ UNCHANGED restVars
    /\ UNCHANGED wireVars

\* HTTPServer.swift:117-120  the result of the write is discarded
WriteHeader(c, r) ==
    /\ Running
    /\ clientPc[c] = "write_header"
    /\ failed' = [failed EXCEPT ![c] = failed[c] \/ r # "ok"]
    /\ clientPc' = [clientPc EXCEPT ![c] = "snapshot"]
    /\ headers' = [headers EXCEPT ![c] = Append(headers[c], responseHeader)]
    /\ UNCHANGED <<submitted, frameQueue, frames, readIndex, sockOpen, batch,
                   lastSent, cursorAt, lastPart>>
    /\ UNCHANGED driverVars
    /\ UNCHANGED restVars

\* HTTPServer.swift:123  frameQueue.sync: the block is queued, the worker waits
Snapshot(c) ==
    /\ Running
    /\ clientPc[c] = "snapshot"
    /\ frameQueue' = Append(frameQueue, [op |-> "getAll", client |-> c])
    /\ clientPc' = [clientPc EXCEPT ![c] = "wait_snapshot"]
    /\ UNCHANGED <<submitted, frames, readIndex, sockOpen, batch, lastSent,
                   failed, cursorAt>>
    /\ UNCHANGED driverVars
    /\ UNCHANGED restVars
    /\ UNCHANGED wireVars

\* a frame's bytes reach the socket unless write() returns -1
Sent(c, r) == IF r = "error" THEN lastSent[c] ELSE Head(batch[c])

\* HTTPServer.swift:125, 141  the part built for the frame and handed to
\* write(); it is the last part on the wire unless write() returns -1
Part(c, r) ==
    IF r = "error" THEN lastPart[c]
    ELSE writeMJPEGFrame(JpegData(Head(batch[c])))

\* HTTPServer.swift:125-130  one warm-up frame; the result is discarded
WriteWarmup(c, r) ==
    /\ Running
    /\ clientPc[c] = "warmup"
    /\ lastSent' = [lastSent EXCEPT ![c] = Sent(c, r)]
    /\ failed' = [failed EXCEPT ![c] = failed[c] \/ r # "ok"]
    /\ batch' = [batch EXCEPT ![c] = Tail(batch[c])]
    /\ clientPc' = [clientPc EXCEPT ![c] = IF Tail(batch[c]) = <<>> THEN "drain" ELSE "warmup"]
    /\ lastPart' = [lastPart EXCEPT ![c] = Part(c, r)]
    /\ UNCHANGED <<submitted, frameQueue, frames, readIndex, sockOpen, cursorAt,
                   headers>>
    /\ UNCHANGED driverVars
    /\ UNCHANGED restVars

\* HTTPServer.swift:134  frameQueue.sync: the block is queued, the worker waits
Drain(c) ==
    /\ Running
    /\ clientPc[c] = "drain"
    /\ frameQueue' = Append(frameQueue, [op |-> "getNew", client |-> c])
    /\ clientPc' = [clientPc EXCEPT ![c] = "wait_drain"]
    /\ UNCHANGED <<submitted, frames, readIndex, sockOpen, batch, lastSent,
                   failed, cursorAt>>
    /\ UNCHANGED driverVars
    /\ UNCHANGED restVars
    /\ UNCHANGED wireVars

\* HTTPServer.swift:136-139  usleep(1000), continue
Sleep(c) ==
    /\ Running
    /\ clientPc[c] = "sleep"
    /\ clientPc' = [clientPc EXCEPT ![c] = "drain"]
    /\ UNCHANGED <<submitted, frameQueue, frames, readIndex, sockOpen, batch,
                   lastSent, failed, cursorAt>>
    /\ UNCHANGED driverVars
    /\ UNCHANGED restVars
    /\ UNCHANGED wireVars

\* HTTPServer.swift:141-151  one streamed frame; only a negative result
\* returns, and the deferred close (HTTPServer.swift:107) closes the socket
WriteFrameClosesAll(c, r) ==
    /\ Running
    /\ clientPc[c] = "stream"
    /\ lastSent' = [lastSent EXCEPT ![c] = Sent(c, r)]
    /\ failed' = [failed EXCEPT ![c] = failed[c] \/ r # "ok"]
    /\ IF r = "error"
       THEN /\ clientPc' = [c2 \in Clients |-> "closed"]
            /\ sockOpen' = [c2 \in Clients |-> FALSE]
            /\ batch' = [c2 \in Clients |-> <<>>]
       ELSE /\ clientPc' = [clientPc EXCEPT ![c] =
                               IF Tail(batch[c]) = <<>> THEN "drain" ELSE "stream"]
            /\ batch' = [batch EXCEPT ![c] = Tail(batch[c])]
            /\ UNCHANGED sockOpen
    /\ lastPart' = [lastPart EXCEPT ![c] = Part(c, r)]
    /\ UNCHANGED <<submitted, frameQueue, frames, readIndex, cursorAt, headers>>
    /\ UNCHANGED driverVars
    /\ UNCHANGED restVars

WriteFrame(c, r) ==
    /\ Running
    /\ clientPc[c] = "stream"
    /\ lastSent' = [lastSent EXCEPT ![c] = Sent(c, r)]
    /\ failed' = [failed EXCEPT ![c] = failed[c] \/ r # "ok"]
    /\ IF r = "error"
       THEN /\ clientPc' = [clientPc EXCEPT ![c] = "closed"]
            /\ sockOpen' = [sockOpen EXCEPT ![c] = FALSE]
            /\ batch' = [batch EXCEPT ![c] = <<>>]
       ELSE /\ clientPc' = [clientPc EXCEPT ![c] =
                               IF Tail(batch[c]) = <<>> THEN "drain" ELSE "stream"]
            /\ batch' = [batch EXCEPT ![c] = Tail(batch[c])]
            /\ UNCHANGED sockOpen
    /\ lastPart' = [lastPart EXCEPT ![c] = Part(c, r)]
    /\ UNCHANGED <<submitted, frameQueue, frames, readIndex, cursorAt, headers>>
    /\ UNCHANGED driverVars
    /\ UNCHANGED restVars

ClientStep(c) ==
    \/ Accept(c) \/ ReadRequest(c) \/ Snapshot(c) \/ Drain(c) \/ Sleep(c)
    \/ \E r \in WriteResults : WriteHeader(c, r)
    \/ \E r \in WriteResults : WriteWarmup(c, r)
    \/ \E r \in WriteResults : WriteFrame(c, r)

NextServer == SubmitFrame \/ QueueRun \/ \E c \in Clients : ClientStep(c)

\* ----------------------------------------------------------- orchestrator
\* part_003:217-231 with startSession up to its await (part_003:120-135):
\* the cache is read; a cached session is returned, else the binary is
\* looked up and the process spawned, and the call waits for stream_ready
getOrCreateSession(k, u, found) ==
    /\ calls[k].pc = "idle"
    /\ IF sessionCache[u] # <<>>
       THEN /\ calls' = [calls EXCEPT ![k] =
                    [pc |-> "returned", udid |-> u, session |-> sessionCache[u][1]]]
            /\ UNCHANGED procs
       ELSE IF ~found
       THEN /\ calls' = [calls EXCEPT ![k] = [pc |-> "threw", udid |-> u, session |-> 0]]
            /\ UNCHANGED procs
       ELSE /\ Len(procs) < MaxSpawns
            /\ procs' = Append(procs, [udid |-> u, state |-> "starting"])
            /\ calls' = [calls EXCEPT ![k] =
                    [pc |-> "awaiting", udid |-> u, session |-> Len(procs) + 1]]
    /\ UNCHANGED sessionCache
    /\ UNCHANGED <<driverVars, serverVars, argVars, bridgeVars, queueVars, encVars, wsVars>>

\* part_003:150-158, 204-211, 229-230  process p's stream_ready line is read:
\* the promise resolves, startSession returns the session and the call that
\* awaited it stores it in the cache and returns it
StreamReady(p) ==
    /\ p \in 1..Len(procs) /\ procs[p].state = "starting"
    /\ procs' = [procs EXCEPT ![p].state = "ready"]
    /\ \E k \in Callers :
        /\ calls[k].pc = "awaiting" /\ calls[k].session = p
        /\ calls' = [calls EXCEPT ![k].pc = "returned"]
        /\ sessionCache' = [sessionCache EXCEPT ![calls[k].udid] = <<p>>]
    /\ UNCHANGED <<driverVars, serverVars, argVars, bridgeVars, queueVars, encVars, wsVars>>

\* part_003:183-201  the process fails, closes or stays silent for 10 s before
\* stream_ready: the promise is rejected and the call throws
StartFailed(p) ==
    /\ p \in 1..Len(procs) /\ procs[p].state = "starting"
    /\ procs' = [procs EXCEPT ![p].state = "dead"]
    /\ \E k \in Callers :
        /\ calls[k].pc = "awaiting" /\ calls[k].session = p
        /\ calls' = [calls EXCEPT ![k] = [@ EXCEPT !.pc = "threw", !.session = 0]]
    /\ UNCHANGED sessionCache
    /\ UNCHANGED <<driverVars, serverVars, argVars, bridgeVars, queueVars, encVars, wsVars>>

\* the caller's request is over; another request can call for a session
NewRequest(k) ==
    /\ calls[k].pc \in {"returned", "threw"}
    /\ calls' = [calls EXCEPT ![k] = NoCall]
    /\ UNCHANGED <<sessionCache, procs>>
    /\ UNCHANGED <<driverVars, serverVars, argVars, bridgeVars, queueVars, encVars, wsVars>>

NextOrchestrator ==
    \/ \E k \in Callers, u \in Udids, found \in BOOLEAN : getOrCreateSession(k, u, found)
    \/ \E p \in 1..MaxSpawns : StreamReady(p) \/ StartFailed(p)
    \/ \E k \in Callers : NewRequest(k)

\* ------------------------------------------------------- WebSocket server
\* server.ts:421-444  the subscription of socket w to u is deleted; the
\* stream activeStreams holds for u is aborted and forgotten when no other
\* socket of the clients map is subscribed to u
stopStreamForClient(st, u, w) ==
    LET subs == [st.subscriptions EXCEPT ![w] = @ \ {u}]
        hasOtherSubscribers ==
            \E o \in WsClients : o # w /\ clients[o] = "open" /\ u \in subs[o]
        stream == st.activeStreams[u]
    IN  IF ~hasOtherSubscribers /\ stream # 0
        THEN [subscriptions |-> subs,
              streams |-> [st.streams EXCEPT ![stream].aborted = TRUE],
              activeStreams |-> [st.activeStreams EXCEPT ![u] = 0]]
        ELSE [subscriptions |-> subs,
              streams |-> st.streams,
              activeStreams |-> st.activeStreams]

\* server.ts:57-64  the close handler's loop over the socket's subscriptions
RECURSIVE stopAll(_, _, _)
stopAll(st, subs, w) ==
    IF subs = {} THEN st
    ELSE LET u == CHOOSE x \in subs : TRUE
         IN  stopAll(stopStreamForClient(st, u, w), subs \ {u}, w)

\* server.ts:46-48  a browser connects: an entry without subscriptions
WsConnect(w) ==
    /\ clients[w] = "new"
    /\ clients' = [clients EXCEPT ![w] = "open"]
    /\ wsEvent' = [type |-> "connect", ws |-> w, udid |-> ""]
    /\ UNCHANGED <<subscriptions, streams, activeStreams, starting>>
    /\ UNCHANGED <<driverVars, serverVars, argVars, bridgeVars, queueVars, encVars, orchVars>>

\* server.ts:308-322  simulator:stream:start up to its await: the socket is
\* subscribed and the stream activeStreams holds for the UDID is aborted,
\* whoever receives it; the entry of activeStreams stays
WsStreamStart(w, u) ==
    /\ clients[w] = "open"
    /\ <<w, u>> \notin starting
    /\ Len(streams) + Cardinality(starting) < MaxStreams
    /\ subscriptions' = [subscriptions EXCEPT ![w] = @ \cup {u}]
    /\ streams' = IF activeStreams[u] # 0
                  THEN [streams EXCEPT ![activeStreams[u]].aborted = TRUE]
                  ELSE streams
    /\ starting' = starting \cup {<<w, u>>}
    /\ wsEvent' = [type |-> "start", ws |-> w, udid |-> u]
    /\ UNCHANGED <<clients, activeStreams>>
    /\ UNCHANGED <<driverVars, serverVars, argVars, bridgeVars, queueVars, encVars, orchVars>>

\* server.ts:322-326  getOrCreateSession has returned: a new controller
\* replaces the entry of activeStreams and streamFramesToWebSocket is called
\* for the socket of the message
WsSessionReady(w, u) ==
    /\ <<w, u>> \in starting
    /\ streams' = Append(streams, [udid |-> u, ws |-> w,
                                    aborted |-> FALSE, ended |-> FALSE])
    /\ activeStreams' = [activeStreams EXCEPT ![u] = Len(streams) + 1]
    /\ starting' = starting \ {<<w, u>>}
    /\ wsEvent' = [type |-> "start", ws |-> w, udid |-> u]
    /\ UNCHANGED <<clients, subscriptions>>
    /\ UNCHANGED <<driverVars, serverVars, argVars, bridgeVars, queueVars, encVars, orchVars>>

\* server.ts:322, 336-338  getOrCreateSession throws: the error is sent to
\* the socket and no stream is started
WsSessionFailed(w, u) ==
    /\ <<w, u>> \in starting
    /\ starting' = starting \ {<<w, u>>}
    /\ wsEvent' = [type |-> "error", ws |-> w, udid |-> u]
    /\ UNCHANGED <<clients, subscriptions, streams, activeStreams>>
    /\ UNCHANGED <<driverVars, serverVars, argVars, bridgeVars, queueVars, encVars, orchVars>>

\* server.ts:330-334  simulator:stream:stop
WsStreamStop(w, u) ==
    /\ clients[w] = "open"
    /\ LET st == stopStreamForClient(
                    [subscriptions |-> subscriptions, streams |-> streams,
                     activeStreams |-> activeStreams], u, w)
       IN  /\ subscriptions' = st.subscriptions
           /\ streams' = st.streams
           /\ activeStreams' = st.activeStreams
    /\ wsEvent' = [type |-> "stop", ws |-> w, udid |-> u]
    /\ UNCHANGED <<clients, starting>>
    /\ UNCHANGED <<driverVars, serverVars, argVars, bridgeVars, queueVars, encVars, orchVars>>

\* server.ts:54-67  the socket closes: stopStreamForClient for each of its
\* stream subscriptions, then the entry leaves the clients map
WsClose(w) ==
    /\ clients[w] = "open"
    /\ LET st == stopAll([subscriptions |-> subscriptions, streams |-> streams,
                          activeStreams |-> activeStreams], subscriptions[w], w)
       IN  /\ subscriptions' = st.subscriptions
           /\ streams' = st.streams
           /\ activeStreams' = st.activeStreams
    /\ clients' = [clients EXCEPT ![w] = "closed"]
    /\ wsEvent' = [type |-> "close", ws |-> w, udid |-> ""]
    /\ UNCHANGED starting
    /\ UNCHANGED <<driverVars, serverVars, argVars, bridgeVars, queueVars, encVars, orchVars>>

\* server.ts:408-410  the simulator-server ends the response of a stream
\* that was not aborted: the entry of its UDID is deleted
StreamEnd(s) ==
    /\ s \in 1..Len(streams)
    /\ ~streams[s].aborted /\ ~streams[s].ended
    /\ streams' = [streams EXCEPT ![s].ended = TRUE]
    /\ activeStreams' = [activeStreams EXCEPT ![streams[s].udid] = 0]
    /\ wsEvent' = [type |-> "end", ws |-> streams[s].ws, udid |-> streams[s].udid]
    /\ UNCHANGED <<clients, subscriptions, starting>>
    /\ UNCHANGED <<driverVars, serverVars, argVars, bridgeVars, queueVars, encVars, orchVars>>

NextWs ==
    \/ \E w \in WsClients : WsConnect(w) \/ WsClose(w)
    \/ \E w \in WsClients, u \in Udids :
          \/ WsStreamStart(w, u) \/ WsSessionReady(w, u) \/ WsSessionFailed(w, u)
          \/ WsStreamStop(w, u)
    \/ \E s \in 1..MaxStreams : StreamEnd(s)

MainStep ==
    \/ HttpStartOk \/ HttpStartFail \/ TouchStart \/ CommandStart
    \/ BridgeStartOk \/ BridgeStartFail \/ PrintReady
    \/ LoopWait \/ LoopCheck \/ LoopPrint

\* the command thread on the lines of StdinLines, none of which is a touch
CmdStep == CmdRead(StdinLines) \/ CmdEof \/ CmdFps \/ CmdShutdown \/ CmdOther

\* the command thread on every line of CommandLines
CmdStepAll ==
    \/ CmdRead(CommandLines) \/ CmdEof
    \/ CmdFps \/ CmdShutdown \/ CmdOther \/ CmdTouch

NextDriver == MainStep \/ CmdStep \/ Tick

\* bridge.start on any list of ports, with a descriptor that takes a
\* callback or one that does not
BridgeScan ==
    \E ports \in PortLists(MaxPorts) :
        \/ \E responds \in BOOLEAN : BridgeStarted(ports, responds)
        \/ BridgeNoSurface(ports)

\* a surface notification, nil or not, or a timer event
SurfaceNotified ==
    \/ \E surface \in {<<>>, <<DefaultSurface>>, <<[width |-> 844, height |-> 390]>>} :
            SurfaceChanged(surface)
    \/ TimerFired

Next ==
    \/ ArgStep \/ MainStep \/ Tick \/ CmdStepAll \/ TouchRun \/ NextServer
    \/ BridgeStartPolling \/ SurfaceRun \/ NextOrchestrator
    \/ (\E delivers \in BOOLEAN : LateCallback(delivers))
    \/ BridgeScan \/ SurfaceNotified \/ BlockStart \/ BlockRun
    \/ BridgeStop
    \/ NextWs

Spec == Init /\ [][Next]_vars

\* the driver alone
SpecDriver == Init /\ [][NextDriver]_vars

\* the main thread is scheduled and the clock advances; nothing is assumed
\* about stdin
LiveDriver == Init /\ [][NextDriver]_vars /\ WF_vars(MainStep) /\ WF_vars(Tick)

\* the bridge after start() on the usual ports, the callback registered and
\* no notification yet
BridgeAfterStart ==
    /\ registeredUUID = <<callbackID>>
    /\ pollingTimer = FALSE
    /\ ioPorts = DefaultPorts
    /\ displayDescriptor = <<1>>
    /\ stopped = FALSE
    /\ currentSurface = <<DefaultSurface>>
    /\ surfaceQueue = <<>>
    /\ inHandler = <<>>
    /\ notified = 0
    /\ notes = <<>>
    /\ lastNil = 0

\* the process once it streams: the listener is bound, stream_ready is
\* written, the pacing loop and the command reader run
InitStreaming ==
    /\ mainPc = "loop_wait"
    /\ exitCode = -1
    /\ port = 0
    /\ fps = 1
    /\ listening = TRUE
    /\ boundPort \in EphemeralPorts
    /\ touchHandler = "started"
    /\ fpsReporting = FALSE
    /\ sinceFrame = 0
    /\ sinceReport = 0
    /\ stdout = PrintLn(<<>>, ReadyText(boundPort))
    /\ cmdPc = "read"
    /\ command = NoCommand
    /\ commandCount = 0
    /\ line = NoLine
    /\ stdinEof = FALSE
    /\ lastLog = "none"
    /\ touchQueue = <<>>
    /\ hidSent = <<>>
    /\ hidClient = <<"async">>
    /\ hidLog = <<>>
    /\ argv = ArgvFor(port, fps)
    /\ InitParsed
    /\ BridgeAfterStart
    /\ InitOrchestrator
    /\ \E n \in {0, Preload} : InitServer(n) /\ EncoderAfter(n)

\* the state in which the command thread starts to read while main() streams,
\* with or without a touch handler
InitCommands ==
    /\ mainPc = "loop_wait"
    /\ exitCode = -1
    /\ port = 0
    /\ fps = 1
    /\ listening = TRUE
    /\ boundPort \in EphemeralPorts
    /\ touchHandler \in {"nil", "started"}
    /\ fpsReporting = FALSE
    /\ sinceFrame = 0
    /\ sinceReport = 0
    /\ stdout = PrintLn(<<>>, ReadyText(boundPort))
    /\ cmdPc = "read"
    /\ command = NoCommand
    /\ commandCount = 0
    /\ line = NoLine
    /\ stdinEof = FALSE
    /\ lastLog = "none"
    /\ touchQueue = <<>>
    /\ hidSent = <<>>
    /\ hidClient \in HidClients(touchHandler)
    /\ hidLog = <<>>
    /\ argv = ArgvFor(port, fps)
    /\ InitParsed
    /\ BridgeAfterStart
    /\ InitOrchestrator
    /\ EncoderAfter(0)
    /\ InitServer(0)

\* the command thread and the touch handler's queue alone
NextCommands == CmdStepAll \/ TouchRun

SpecCommands == InitCommands /\ [][NextCommands]_vars

\* the MJPEG server alone, while the process streams
SpecServer == InitStreaming /\ [][NextServer]_vars

\* one connection, any write results; frameQueue runs the blocks it is given
\* and nothing is assumed about the worker, which may block in write() for ever
NextOneClient == SubmitFrame \/ QueueRun \/ ClientStep("c1")

LiveOneClient == InitStreaming /\ [][NextOneClient]_vars /\ WF_vars(QueueRun)

\* the MJPEG server with one connection, while the process streams
SpecOneClient == InitStreaming /\ [][NextOneClient]_vars

\* one connection whose writes all return the full count
StreamStep ==
    \/ Accept("c1") \/ ReadRequest("c1") \/ Snapshot("c1") \/ Drain("c1") \/ Sleep("c1")
    \/ WriteHeader("c1", "ok") \/ WriteWarmup("c1", "ok") \/ WriteFrame("c1", "ok")

NextStream == SubmitFrame \/ QueueRun \/ StreamStep

\* frameQueue and the worker thread are scheduled, write() returns
LiveStream ==
    InitStreaming /\ [][NextStream]_vars /\ WF_vars(QueueRun) /\ WF_vars(StreamStep)

\* the command thread beside the surface handler and one served connection,
\* while the process streams
NextStreaming == CmdStep \/ NextStream

SpecStreaming == InitStreaming /\ [][NextStreaming]_vars

\* main() up to the pacing loop
StartStep ==
    \/ HttpStartOk \/ HttpStartFail \/ TouchStart \/ CommandStart
    \/ BridgeStartOk \/ BridgeStartPolling \/ BridgeStartFail \/ PrintReady

\* main() from its arguments to the stream_ready line

NextStart == ArgStep \/ StartStep

SpecStart ==
    InitArgs(ArgLists(MaxArgItems)) /\ InitServer(0) /\ [][NextStart]_vars

\* the surface handler on any surface, and frameQueue running the appends
NextEncoder == SurfaceRun \/ (\E delivers \in BOOLEAN : LateCallback(delivers)) \/ RunAppend

SpecEncoder == InitStreaming /\ [][NextEncoder]_vars

\* the command thread's dispatch of the command it holds
CmdDispatch == CmdFps \/ CmdShutdown \/ CmdOther

\* one connection served while the surface is still: no frame arrives, the
\* snapshot is empty and the worker polls
PollStep ==
    \/ Accept("c1") \/ ReadRequest("c1") \/ WriteHeader("c1", "ok")
    \/ Snapshot("c1") \/ Drain("c1") \/ Sleep("c1")
    \/ RunGetAll \/ RunGetNew

\* the process from its start with a still surface and without the clock:
\* main() up to the pacing loop, the command thread and one connection
InitRun == Init /\ port = 0 /\ fps = 1

NextRun == StartStep \/ CmdStep \/ PollStep

SpecRun == InitRun /\ [][NextRun]_vars

\* the orchestrator next to a simulator-server that has not started
SpecOrchestrator == InitRun /\ [][NextOrchestrator]_vars

\* the orchestrator's WebSocket server with two browser clients
SpecWs == InitRun /\ [][NextWs]_vars

\* main() up to the pacing loop with any list of I/O ports
NextSelect == StartStep \/ BridgeScan

SpecSelect == InitRun /\ [][NextSelect]_vars

\* main() up to the pacing loop, the bridge's notifications, its serial
\* queue, the ring's queue and a caller of stop()
NextBridge ==
    \/ StartStep \/ SurfaceNotified \/ BlockStart \/ BlockRun
    \/ RunAppend
    \/ BridgeStop

SpecBridge == InitRun /\ [][NextBridge]_vars

\* the command thread is scheduled: a command it holds is dispatched
LiveRun == SpecRun /\ WF_vars(CmdDispatch)

\* ------------------------------------------------------------------ claims
InLoop == mainPc \in {"loop_wait", "loop_check", "loop_print"}

\* C1: whatever is on stdout starts with the line
\* stream_ready http://127.0.0.1:<boundPort>/stream.mjpeg, written only once
\* the listener is bound; the line is on stdout exactly once when the pacing
\* loop runs, never more than once, and nothing is written during startup, so
\* no fps_report line precedes it.
C1_Handshake ==
    /\ stdout # <<>> =>
          /\ stdout[1] = <<"stream_ready", " ", "http://127.0.0.1:">>
                             \o Decimal(boundPort) \o <<"/stream.mjpeg">>
          /\ listening
          /\ boundPort \in 1..65535
    /\ NumReady <= 1
    /\ InLoop => NumReady = 1
    /\ mainPc \in {"http_start", "touch_start", "cmd_start", "bridge_start",
                   "print_ready"} => stdout = <<>>

\* fps_report lines follow a stream_ready line that names an ephemeral port
C1_Witness ==
    /\ port = 0
    /\ NumReports >= 1
    /\ IsReadyLine(stdout[1])

\* C2: every line of stdout starts with "stream_ready " or "fps_report "
C2_TwoFamilies ==
    \A i \in 1..Len(stdout) : IsReadyLine(stdout[i]) \/ IsReportLine(stdout[i])

\* C3: an fps_report line is written only while the FPS-reporting flag is
\* true (never after fps false was dispatched and before the next fps true)
C3_ReportOnlyWhileEnabled ==
    [][NumReports' > NumReports => fpsReporting]_vars

\* C4: while the flag stays true and the process is not shut down, the pacing
\* loop writes a further fps_report line, again and again, and two reports
\* are at least one second apart
C4_ReportsWhileEnabled ==
    /\ \A n \in 0..(MaxReports - 1) :
          (InLoop /\ fpsReporting /\ NumReports = n)
              ~> (NumReports > n \/ ~fpsReporting \/ ~Running)
    /\ [][NumReports' > NumReports => sinceReport >= TicksPerSec]_vars

C4_Witness == fpsReporting /\ NumReports = MaxReports /\ Running


\* a worker that has been handed past the request, up to its return
Serving(c) == clientPc[c] \notin {"none", "closed"}

\* frameQueue runs a read (snapshot or drain) for connection c in this step
ReadRunsFor(c) ==
    /\ frameQueue # <<>>
    /\ Head(frameQueue).op \in {"getAll", "getNew"}
    /\ Head(frameQueue).client = c
    /\ frameQueue' = Tail(frameQueue)

Range(seq) == {seq[i] : i \in 1..Len(seq)}

\* C5: each connection has its own cursor: a read by one connection leaves
\* unchanged the frames every other served connection has still to receive
C5_OwnCursor ==
    [][\A c \in Clients : ReadRunsFor(c) =>
          \A d \in Clients \ {c} : Serving(d) =>
              getNewFrames(frames', readIndex') = getNewFrames(frames, readIndex)]_vars

\* C6: for a single connection whose writes succeed, every frame the ring has
\* taken is followed by the delivery of that frame or a later one
C6_NoStall ==
    \A n \in 1..(Preload + MaxFrames) :
        (Latest >= n /\ Serving("c1")) ~> (lastSent["c1"] >= n)

\* C7: the frames written to a connection are strictly increasing in append
\* order: the frames a worker has still to write are in append order and all
\* later than the last frame it wrote
C7_InOrder ==
    \A c \in Clients :
        /\ \A i \in 1..(Len(batch[c]) - 1) : batch[c][i] < batch[c][i + 1]
        /\ batch[c] # <<>> => Head(batch[c]) > lastSent[c]

\* both connections were written to, one of them a frame appended after the
\* ring began to evict
C7_Witness ==
    \E c \in Clients : \E d \in Clients \ {c} :
        lastSent[c] > capacity /\ lastSent[d] > 0

\* C8: a drain returns every frame the ring still holds that was appended
\* after the connection's previous read
C8_MissOnlyEvicted ==
    [][\A c \in Clients : (ReadRunsFor(c) /\ Head(frameQueue).op = "getNew") =>
          \A i \in 1..Len(frames) :
              frames[i] > cursorAt[c] => frames[i] \in Range(batch'[c])]_vars

\* C9: every submitted frame is appended to the ring although the worker may
\* stay inside write() for ever, and a worker inside write() holds no block
\* of frameQueue
C9_WriterNotBlocked ==
    /\ \A n \in 1..(Preload + MaxFrames) : (submitted >= n) ~> (Latest >= n)
    /\ [](\A c \in Clients : clientPc[c] \in WritePcs =>
              \A i \in 1..Len(frameQueue) :
                  frameQueue[i].op = "append" \/ frameQueue[i].client # c)

\* frames were appended while the worker was inside write()
C9_Witness ==
    /\ clientPc["c1"] = "stream"
    /\ Latest = Preload + MaxFrames
    /\ Latest > batch["c1"][Len(batch["c1"])]

\* C10: after a write that returned an error or a short count the connection
\* is closed
C10_FailedWriteCloses ==
    \A c \in Clients : failed[c] => clientPc[c] = "closed" /\ ~sockOpen[c]

C13_ResponseHeaders ==
    \A c \in Clients : \A i \in 1..Len(headers[c]) :
        LET raw == SplitLines(headers[c][i], <<>>)
            \* the lines of the header, without the CR that ends each
            ls == [j \in 1..Len(raw) |-> Trim(raw[j], "\r")]
        IN  /\ ls # <<>>
            /\ ls[1] = <<"HTTP/1.1 200 OK">>
            /\ { <<"Content-Type: multipart/x-mixed-replace; boundary=--mjpegstream">>,
                 <<"Cache-Control: no-cache, no-store, must-revalidate">>,
                 <<"Connection: close">> } \subseteq Range(ls)

\* ------------------------------------------------ command-thread properties
\* the command thread ends the dispatch of the command it holds
Dispatched == cmdPc = "dispatch" /\ cmdPc' # "dispatch"

\* what a touch line with the phase and the x,y pairs separated by spaces
\* stands for: the phase and the pairs, in hundredths, in the order written
SpacedTouchCommand(l) ==
    CASE l = <<"touch", SP, "began", SP, "0.5", COMMA, "0.5">> ->
            [kind |-> "touch", type |-> "began", points |-> << <<50, 50>> >>]
      [] l = <<"touch", SP, "ended", SP, "0.5", COMMA, "0.5">> ->
            [kind |-> "touch", type |-> "ended", points |-> << <<50, 50>> >>]
      [] l = <<"touch", SP, "moved", SP, "0.25", COMMA, "0.5", SP, "0.5", COMMA, "1">> ->
            [kind |-> "touch", type |-> "moved",
             points |-> << <<25, 50>>, <<50, 100>> >>]

\* C14: a line `touch <phase> x,y [x,y ...]` with a phase among began, moved
\* and ended parses to a touch command of that phase with the pairs in the
\* order written
C14_TouchParsed ==
    cmdPc = "dispatch" /\ line \in SpacedTouchLines
        => command = SpacedTouchCommand(line)

\* C15: with a touch handler, dispatching a line `touch <phase> x,y [x,y ...]`
\* of k points hands the handler's queue one block, and the block is sent as
\* k HID messages with the coordinates of the points in order and the flags
\* (1,1) for began and moved, (0,0) for ended
C15_OneMessagePerPoint ==
    /\ [][Dispatched /\ line \in SpacedTouchLines /\ touchHandler = "started"
            => touchQueue' =
                  Append(touchQueue,
                         [type |-> SpacedTouchCommand(line).type,
                          points |-> SpacedTouchCommand(line).points,
                          cmd |-> commandCount])]_vars
    /\ [][touchQueue # <<>> /\ touchQueue' = Tail(touchQueue)
            => LET type == Head(touchQueue).type
                   points == Head(touchQueue).points
               IN  hidSent' =
                     [i \in 1..Len(points) |->
                        [eventType |-> 2,
                         xRatio |-> points[i][1], yRatio |-> points[i][2],
                         field9 |-> IF type = "ended" THEN 0 ELSE 1,
                         field10 |-> IF type = "ended" THEN 0 ELSE 1]]]_vars

\* C16: dispatching a touch line without shape, known phase or numeric pair
\* writes a WARN log, hands nothing to the touch handler, sends no HID
\* message and leaves the reader reading
C16_MalformedTouchWarns ==
    [][Dispatched /\ line \in MalformedTouchLines
         => /\ lastLog' = "WARN"
            /\ touchQueue' = touchQueue
            /\ hidSent' = hidSent
            /\ cmdPc' = "read"
            /\ Running']_vars

\* a malformed touch line is being dispatched after an earlier one was
\* logged at WARN
C16_Witness ==
    /\ cmdPc = "dispatch"
    /\ line \in MalformedTouchLines
    /\ command = Unknown
    /\ commandCount >= 2
    /\ lastLog = "WARN"

\* C17: while the process runs the reader stops only when stdin is closed;
\* no line it was given stops it
C17_ReaderSurvives ==
    Running /\ cmdPc = "stopped" => stdinEof

\* C18: the flag is false before the first command; dispatching `fps true`
\* sets it, dispatching `fps false` clears it, and no other step changes it
C18_FlagOnlyByTrueFalse ==
    /\ [](commandCount = 0 => ~fpsReporting)
    /\ [][IF Dispatched /\ line = <<"fps", SP, "true">> THEN fpsReporting'
          ELSE IF Dispatched /\ line = <<"fps", SP, "false">> THEN ~fpsReporting'
          ELSE fpsReporting' = fpsReporting]_vars

\* ------------------------------------------------ end of input and shutdown
\* C19: the step that finds stdin closed stops the reader and changes nothing
\* else; from then on the process does not exit, a submitted frame is still
\* taken and appended, a connection is still accepted and a served one still
\* takes its steps; the process ends only by a shutdown read before that
C19_EofKeepsRunning ==
    /\ [][~stdinEof /\ stdinEof'
            => /\ cmdPc' = "stopped"
               /\ Running'
               /\ <<mainPc, fpsReporting, stdout, serverVars>>' =
                     <<mainPc, fpsReporting, stdout, serverVars>>]_vars
    /\ [][stdinEof => stdinEof' /\ Running']_vars
    /\ [][Running /\ ~Running'
            => ~stdinEof /\ command.kind = "shutdown" /\ exitCode' = 0]_vars
    /\ [](stdinEof =>
            /\ cmdPc = "stopped"
            /\ (submitted < Preload + MaxFrames /\ frameQueue = <<>>
                    => ENABLED SubmitFrame)
            /\ (frameQueue # <<>> /\ Head(frameQueue).op = "append"
                    => ENABLED RunAppend)
            /\ (clientPc["c1"] = "none" => ENABLED Accept("c1"))
            /\ (clientPc["c1"] \notin {"none", "closed", "wait_snapshot",
                                       "wait_drain"}
                    => ENABLED StreamStep))

\* stdin is closed, a frame submitted since waits to be appended and the
\* connection is being sent frames
C19_Witness ==
    /\ stdinEof /\ Running
    /\ commandCount = 0
    /\ clientPc["c1"] = "stream"
    /\ frameQueue # <<>> /\ Head(frameQueue).op = "append"
    /\ lastSent["c1"] > Preload

\* C20 as stated: a process that read shutdown and has ended, ended with
\* exit code 0
C20_ShutdownExitsZero ==
    command.kind = "shutdown" /\ ~Running => exitCode = 0

\* C20: once shutdown is read the process terminates and nothing further is
\* read or dispatched; the exit code is 0, or 1 when the bridge failed to
\* start before the command was dispatched, which is before stream_ready
C20_ShutdownTerminates ==
    /\ (command.kind = "shutdown") ~> ~Running
    /\ [](command.kind = "shutdown" /\ ~Running
            => exitCode = 0 \/ (exitCode = 1 /\ stdout = <<>>))
    /\ [](command.kind = "shutdown" /\ exitCode = -1 /\ mainPc # "bridge_start"
            => ENABLED CmdShutdown /\ ~ENABLED BridgeStartFail
               /\ ~ENABLED HttpStartFail)
    /\ [][command.kind = "shutdown"
            => /\ command' = command
               /\ commandCount' = commandCount
               /\ fpsReporting' = fpsReporting
               /\ exitCode' \in {exitCode, 0, 1}]_vars
    /\ [][command.kind = "shutdown" /\ cmdPc # cmdPc' => exitCode' \in {0, 1}]_vars

\* shutdown ended the process with code 0 after stream_ready, a connection
\* being served
C20_Witness ==
    /\ command.kind = "shutdown"
    /\ exitCode = 0
    /\ stdout # <<>>
    /\ clientPc["c1"] \in {"drain", "wait_drain", "sleep"}
    /\ sockOpen["c1"]

\* ------------------------------------------------------ shutdown and startup
\* C21: when the process has exited with code 0 on the shutdown command, the
\* bridge's surface callback is no longer registered, its polling timer is
\* cancelled and the HTTP listener is closed.
C21_ShutdownReleases ==
    (exitCode = 0 /\ command.kind = "shutdown") =>
        /\ registeredUUID = <<>>
        /\ ~pollingTimer
        /\ ~listening

\* bridge.start has returned true: the callback is registered or the timer runs
BridgeUp == registeredUUID # <<>> \/ pollingTimer

C23_InjectorFailureFatal ==
    /\ NumReady > 0 => touchHandler = "started"
    /\ (mainPc \in {"cmd_start", "bridge_start", "print_ready"} \/ InLoop)
            => touchHandler = "started"

\* ---------------------------------------------------------------- arguments
\* C24: the session parameters are always in range (rate 1..120, quality
\* 0.1..1.0, port a uint16), and once the arguments are read the rate is
\* min(120, max(1, N)) for the last --fps N with an integer N and 60 without
\* one, the quality is the last --quality value clamped to 0.1..1.0 and 0.7
\* without one, and the port is the last --port uint16 and 0 without one.
C24_ParametersClamped ==
    /\ fps \in 1..120
    /\ quality \in 10..100
    /\ port \in 0..65535
    /\ (mainPc # "parse_args" /\ exitCode # 0) =>
        LET \* the value of the last place of argv where the flag is followed
            \* by a value that its conversion reads: <<>> when there is none
            Given(flag) ==
                LET valueOf(str) == CASE flag = <<"--fps">> -> IntArg(str)
                                      [] flag = <<"--quality">> -> FloatArg(str)
                                      [] OTHER -> UInt16Arg(str)
                    at == { i \in 1..(Len(argv) - 1) :
                                argv[i] = flag /\ valueOf(argv[i + 1]) # <<>> }
                IN  IF at = {} THEN <<>>
                    ELSE valueOf(argv[(CHOOSE i \in at : \A j \in at : j <= i) + 1])
            n == Given(<<"--fps">>)
            q == Given(<<"--quality">>)
            p == Given(<<"--port">>)
        IN  /\ fps = IF n = <<>> THEN DefaultFps ELSE min(120, max(1, n[1]))
            /\ quality = IF q = <<>> THEN DefaultQuality ELSE min(100, max(10, q[1]))
            /\ port = IF p = <<>> THEN DefaultPort ELSE p[1]

\* C25: a list in which no argument follows a --udid is rejected for its
\* missing UDID once it is read; a list that holds --udid followed by a value
\* is never rejected for a missing UDID, whatever flag without a value comes
\* before or after it; and a list that holds --help or -h ends in exit code 0.
C25_ArgumentOutcomes ==
    LET \* the argument loop is over and has not ended in the usage exit
        ParsedAll == mainPc # "parse_args" /\ exitCode # 0
        \* the process has ended with exit code 1 for its missing UDID
        Rejected == exitCode = 1 /\ udid = <<>>
        \* the words main() switches on
        FlagWords == { <<"--udid">>, <<"--fps">>, <<"--quality">>, <<"--port">>,
                       <<"--help">>, <<"-h">> }
        \* argv holds --udid followed by a value that is not a flag
        HasUdid == \E i \in 1..(Len(argv) - 1) :
                        argv[i] = <<"--udid">> /\ argv[i + 1] \notin FlagWords
        \* argv holds --help or -h
        HasHelp == \E i \in 1..Len(argv) : argv[i] \in { <<"--help">>, <<"-h">> }
    IN  /\ (ParsedAll /\ ~\E i \in 1..(Len(argv) - 1) : argv[i] = <<"--udid">>)
                => Rejected
        /\ Rejected => ~HasUdid
        /\ (mainPc # "parse_args" /\ HasHelp) => exitCode = 0

\* ----------------------------------------------------------- orchestrator
\* C26: for every simulator at most one simulator-server process is spawned
\* (not counting one that failed before stream_ready), also while calls
\* overlap, and the calls that have returned hold the same session, the cached
\* one.
C26_OneProcessPerUdid ==
    \A u \in Udids :
        LET \* the processes spawned for the simulator that have not failed
            Spawned == { p \in 1..Len(procs) :
                            procs[p].udid = u /\ procs[p].state # "dead" }
            \* the sessions the calls for the simulator have returned
            Received ==
                { calls[k].session :
                    k \in { c \in Callers : calls[c].pc = "returned"
                                              /\ calls[c].udid = u } }
        IN  /\ Cardinality(Spawned) <= 1
            /\ Cardinality(Received) <= 1
            /\ Received # {} /\ sessionCache[u] # <<>>
                    => Received = {sessionCache[u][1]}

\* ------------------------------------------------------------------- ring
\* the number of append blocks frameQueue has run: the frames submitted less
\* those whose append still waits
Appended ==
    submitted - Cardinality({i \in 1..Len(frameQueue) : frameQueue[i].op = "append"})

\* C27: after n appends the ring holds the last min(n, capacity) appended
\* frames in the order of their appends, so never more than capacity frames,
\* and an append to a full ring has dropped the oldest frame only.
C27_RingHoldsLast ==
    LET held == min(Appended, capacity)
    IN  /\ Len(frames) <= capacity
        /\ frames = [i \in 1..held |-> Appended - held + i]

\* the ring is full and its oldest frames have been evicted
C27_Witness ==
    /\ Len(frames) = capacity
    /\ Appended > capacity
    /\ frames[1] = Appended - capacity + 1

\* C28: readIndex is between 0 and the number of frames in the ring, and the
\* ring's latest index at a connection's last read is never ahead of the
\* ring's latest index.
C28_CursorBehindLatest ==
    /\ 0 <= readIndex
    /\ readIndex <= Len(frames)
    /\ \A c \in Clients : cursorAt[c] <= Latest

\* a drain has read a full ring that had already evicted frames
C28_Witness ==
    /\ readIndex = capacity
    /\ Len(frames) = capacity
    /\ frames[1] > 1
    /\ cursorAt["c1"] = Latest
    /\ clientPc["c1"] = "stream"

C30_SoftwareFallback ==
    \* the run of the handler got a pixel buffer and its software path succeeds
    (encoded # <<>> /\ encoded[1].pix /\ encoded[1].sw = "ok") =>
        LET e == encoded[1]
        IN  /\ e.session = "nil" => e.jpegData = <<"sw">>
            /\ (e.session = "hw" /\ e.submit = "noErr" /\ e.callback = "late")
                    => e.jpegData = <<"sw">>
            /\ (e.session = "hw" /\ (e.submit = "err" \/ e.callback = "failed"))
                    => e.jpegData = <<"sw">>
            /\ e.jpegData # <<>>

\* C31: the semaphore's count is 0 when an encode call starts, and no wait of
\* an encode is ended by the signal of an earlier frame's output handler
\* before the handler of its own frame has run.
C31_OwnCallbackEndsWait ==
    /\ semaphore = 0
    /\ encoded # <<>> => ~encoded[1].early

\* ------------------------------------------------------------------ bridge
\* C32: at most one block of the bridge's queue runs the surface handler at
\* any time, with the callback and with the poller; the frames are submitted
\* in the order of their notifications, and the ring holds them in that order.
C32_HandlerSerial ==
    /\ Len(inHandler) <= 1
    /\ \A i \in 1..(Len(notes) - 1) : notes[i] < notes[i + 1]
    /\ \A i \in 1..Len(frames) : \A j \in 1..Len(frames) :
          i < j => notes[frames[i]] < notes[frames[j]]

\* with the poller a frame is in the ring, a block is being run and another
\* waits behind it
C32_Witness ==
    /\ pollingTimer
    /\ Len(frames) >= 1
    /\ inHandler # <<>>
    /\ surfaceQueue # <<>>

\* C33: once bridge.start has returned true exactly one delivery mode is
\* active: the callback is registered under callbackID and there is no timer,
\* or the timer runs and no callback is registered; never both, never neither.
C33_OneDeliveryMode ==
    (mainPc = "print_ready" \/ InLoop) =>
        \/ registeredUUID = <<callbackID>> /\ ~pollingTimer
        \/ registeredUUID = <<>> /\ pollingTimer

\* the stream_ready line is written by a process whose bridge polls the
\* descriptor of a port that is not the first of its list
C33_Witness ==
    /\ NumReady > 0
    /\ pollingTimer
    /\ registeredUUID = <<>>
    /\ displayDescriptor # <<>>
    /\ displayDescriptor[1] > 1

\* C34: among the ports with a surface (the framebuffer surface before the
\* I/O surface) start selects the first port of display class 0 if there is
\* one, else the earliest port of the largest width x height; it fails when
\* no port has a surface; the descriptor and the initial current surface are
\* those of the same port.
C34_DisplaySelection ==
    LET exposed(p) == IF ~p.descriptor THEN <<>>
                      ELSE IF p.fb # <<>> THEN p.fb ELSE p.ios
        area(p) == exposed(p)[1].width * exposed(p)[1].height
        withSurface == { i \in 1..Len(ioPorts) : exposed(ioPorts[i]) # <<>> }
        main == { i \in withSurface : ioPorts[i].class = <<0>> }
        largest == { i \in withSurface :
                        \A j \in withSurface : area(ioPorts[j]) <= area(ioPorts[i]) }
        first(set) == CHOOSE i \in set : \A j \in set : i <= j
    IN  /\ displayDescriptor # <<>> =>
              /\ withSurface # {}
              /\ displayDescriptor[1] =
                    IF main # {} THEN first(main) ELSE first(largest)
              /\ currentSurface = exposed(ioPorts[displayDescriptor[1]])
        /\ withSurface = {} =>
              /\ displayDescriptor = <<>>
              /\ mainPc \notin {"print_ready", "loop_wait", "loop_check", "loop_print"}

\* of three ports none is of class 0, the second and the third have surfaces
\* of the same largest size, and the second was selected
C34_Witness ==
    /\ Len(ioPorts) = 3
    /\ \A i \in 1..3 : ioPorts[i].class # <<0>>
    /\ ioPorts[2].ios = <<[width |-> 390, height |-> 844]>>
    /\ ioPorts[3].fb = <<[width |-> 844, height |-> 390]>>
    /\ displayDescriptor = <<2>>
    /\ NumReady > 0

\* C35: the run of the handler on a nil surface leaves the process running,
\* submits and appends no frame and leaves the encoder as it is; and after
\* it a surface that is not nil and has a pixel buffer is encoded and
\* submitted.
C35_NilSurfaceIgnored ==
    /\ [][lastNil' # lastNil =>
            /\ Running'
            /\ UNCHANGED <<encoder, submitted, frameQueue, frames, notes>>]_vars
    /\ [][(/\ lastNil > 0
           /\ inHandler # <<>> /\ inHandler' = <<>>
           /\ inHandler[1].kind = "callback" /\ inHandler[1].surface # <<>>
           /\ submitted' = submitted)
            => encoded' # <<>> /\ ~encoded'[1].pix]_vars

\* a frame was submitted for a notification that came after a nil surface
C35_Witness ==
    /\ lastNil > 0
    /\ notes # <<>>
    /\ notes[Len(notes)] > lastNil
    /\ encoder # <<>>

\* C36: once stop() has returned the poller is cancelled, the callback is no
\* longer registered under callbackID, the bridge holds no descriptor and no
\* block started after the return is running the surface handler.
C36_StopReleases ==
    stopped =>
        /\ ~pollingTimer
        /\ registeredUUID = <<>>
        /\ displayDescriptor = <<>>
        /\ \A i \in 1..Len(inHandler) : ~inHandler[i].afterStop

\* C37: command dispatch is serial and keeps the order of stdin: a line is
\* read only after the callback of the line before it has returned; the
\* sendTouchEvent calls happen in the order of the touch commands and, within
\* one command, in the order of its points; and a block of the touch queue
\* sends all its points whatever sends have failed before it, without ending
\* the process
C37_SerialInOrder ==
    /\ [][commandCount' # commandCount
            => cmdPc = "read" /\ command = NoCommand /\ line = NoLine]_vars
    /\ [](\A i, j \in 1..Len(hidLog) :
            i < j => \/ hidLog[i].cmd < hidLog[j].cmd
                     \/ /\ hidLog[i].cmd = hidLog[j].cmd
                        /\ hidLog[i].point < hidLog[j].point)
    /\ [][touchQueue # <<>> /\ touchQueue' = Tail(touchQueue)
            => LET block == Head(touchQueue)
                   n == Len(block.points)
               IN  /\ Len(hidLog') = Len(hidLog) + n
                   /\ \A i \in 1..n :
                         /\ hidLog'[Len(hidLog) + i].cmd = block.cmd
                         /\ hidLog'[Len(hidLog) + i].point = i
                   /\ exitCode' = exitCode]_vars

\* a send of one command has failed and a later command has sent both of its
\* points
C37_Witness ==
    \E i, j \in 1..Len(hidLog) :
       /\ i < j
       /\ hidLog[i].error
       /\ hidLog[j].cmd > hidLog[i].cmd
       /\ hidLog[j].point = 2

C39_TouchBeforeShutdown ==
    exitCode = 0 /\ command.kind = "shutdown" /\ touchHandler = "started"
        => touchQueue = <<>>

\* C40: an event of one socket (stream:start, stream:stop, close) neither
\* aborts nor replaces in activeStreams the stream that another socket, open
\* and still subscribed to the stream's UDID, receives frames from; the data
\* handler sends a stream's frames to its socket while the signal is not
\* aborted and the socket is open (server.ts:368-390)
C40_OtherClientKeepsStream ==
    [][\A s \in 1..Len(streams) :
          LET d == streams[s].ws
              u == streams[s].udid
          IN  /\ ~streams[s].aborted /\ ~streams[s].ended
              /\ clients[d] = "open"
              /\ wsEvent'.type \in {"start", "stop", "close"}
              /\ wsEvent'.ws # d
              /\ clients'[d] = "open"
              /\ u \in subscriptions'[d]
              => /\ ~streams'[s].aborted
                 /\ activeStreams[u] = s => activeStreams'[u] = s]_vars

=============================================================================
